---- MODULE Spec2Model ----
(***************************************************************************)
(* A model of src/mtga_follower.py: the Follower object (the log reader,   *)
(* the entry segmenter, the message dispatcher, the game-state aggregator  *)
(* and the publisher) together with its environment (the log file and its  *)
(* writer, and the remote endpoint's responses).                           *)
(*                                                                         *)
(* Conventions.  A Python dict is a TLA+ function (a record when its keys  *)
(* are strings); "key in d" is "key \in DOMAIN d".  A Python list is a     *)
(* sequence.  None is the string "None" where the other values are strings *)
(* and the integer NoneInt where they are integers.  An operator that      *)
(* models a method takes and returns a call context                       *)
(*     [self, net, out, exc]                                               *)
(* self: the Follower's attributes; net: the outcomes the next publish     *)
(* calls will meet; out: the publish calls made so far in this step; exc:  *)
(* "none", or the name of the exception that is propagating.               *)
(***************************************************************************)
EXTENDS Integers, Sequences, FiniteSets, TLC

VARIABLES
    self,       \* the Follower instance (its attributes, lines 133-152)
    file,       \* the lines of the log file written so far
    exists,     \* whether the log file exists
    modified,   \* os.stat(filename).st_mtime > last_read_time
    follow,     \* parse_log's follow argument
    pc,         \* where parse_log stands
    pos,        \* the open file object's read position (lines consumed)
    opens,      \* how many times parse_log has opened the file
    posted,     \* every publish call made, in order
    handed,     \* every entry handed to __handle_blob, in order
    last,       \* what the last step of parse_log did
    rp          \* one isolated call of __retry_post: its inputs and result

vars == <<self, file, exists, modified, follow, pc, pos, opens, posted, handed, last, rp>>

-----------------------------------------------------------------------------
(* Bounds of the model *)

MaxLines == 2       \* lines the writer appends to the log
MaxOpens == 2       \* times parse_log opens the file
MaxRetryArg == 2    \* largest num_retries the isolated publisher is called with
MaxMsgs == 3        \* messages handled in the message-level specification
PostsPerStep == 2   \* publish calls whose outcome is drawn per step
MaxResults == 2     \* entries of the results list of a game-over message
MaxGre == 4         \* game-state messages handled in the game-level specification

-----------------------------------------------------------------------------
(* Program constants *)

RETRIES == 2
NoneInt == 0
ConnectionError == 0    \* the "status" of a POST that raised instead of answering

IS_CODE_FOR_RETRY(code) == code >= 500 /\ code < 600

Min(a, b) == IF a <= b THEN a ELSE b

-----------------------------------------------------------------------------
(* Publisher: __retry_post *)

\* The response statuses a POST is answered with in this model; ConnectionError
\* stands for requests.post raising (no response at all).
StatusCodes == {200, 404, 499, 500, 503, 599, 600}
Outcomes == StatusCodes \cup {ConnectionError}

\* The while loop of lines 170-177: responses[i] answers the i-th POST.
\* Returns [attempts, status, exc].
RECURSIVE retry_loop(_, _, _)
retry_loop(responses, tries_left, attempts) ==
    IF tries_left > 0
    THEN LET left == tries_left - 1
             response == responses[attempts + 1]
         IN IF response = ConnectionError
            THEN [attempts |-> attempts + 1, status |-> ConnectionError, exc |-> "ConnectionError"]
            ELSE IF ~IS_CODE_FOR_RETRY(response)
            THEN [attempts |-> attempts + 1, status |-> response, exc |-> "none"]
            ELSE IF left > 0
            THEN retry_loop(responses, left, attempts + 1)
            ELSE [attempts |-> attempts + 1, status |-> response, exc |-> "none"]
    ELSE [attempts |-> attempts, status |-> NoneInt, exc |-> "UnboundLocalError"]

retry_post_mut_budget(responses, num_retries) ==
    retry_loop(responses, num_retries, 0)

retry_post_result(responses, num_retries) ==
    retry_loop(responses, num_retries + 1, 0)

-----------------------------------------------------------------------------
(* Values *)

Has(d, k) == k \in DOMAIN d
Get(d, k, default) == IF k \in DOMAIN d THEN d[k] ELSE default

\* A defaultdict read d[k]: the key is inserted with the default when missing.
Touch(d, k, default) == IF k \in DOMAIN d THEN d ELSE d @@ (k :> default)

EmptyDict == <<>>

\* TIME_FORMATS, lines 58-65.
TIME_FORMATS == <<"%Y-%m-%d %I:%M:%S %p", "%Y-%m-%d %H:%M:%S",
                  "%m/%d/%Y %I:%M:%S %p", "%m/%d/%Y %H:%M:%S",
                  "%Y/%m/%d %I:%M:%S %p", "%Y/%m/%d %H:%M:%S">>

\* The time strings that occur in the model's log lines: each with the one
\* strptime format it is written in and the datetime it denotes.  The last
\* two match TIMESTAMP_REGEX / LOG_START_REGEX_TIMED and no format of
\* TIME_FORMATS (dots as date separators; a trailing ": " after the seconds).
RawTimeTable ==
    ("2020-01-01 10:00:00" :> [format |-> "%Y-%m-%d %H:%M:%S", datetime |-> "2020-01-01T10:00:00"]) @@
    ("1/1/2020 10:00:05 AM" :> [format |-> "%m/%d/%Y %I:%M:%S %p", datetime |-> "2020-01-01T10:00:05"]) @@
    ("2020.01.01 10:00:07" :> [format |-> "%Y.%m.%d %H:%M:%S", datetime |-> "2020-01-01T10:00:07"]) @@
    ("2020-01-01 10:00:09: " :> [format |-> "%Y-%m-%d %H:%M:%S: ", datetime |-> "2020-01-01T10:00:09"])

\* datetime.datetime.strptime(time_str, possible_format): the datetime, or
\* "ValueError" when the string is not written in that format.
strptime(time_str, possible_format) ==
    IF RawTimeTable[time_str].format = possible_format
    THEN RawTimeTable[time_str].datetime
    ELSE "ValueError"

\* extract_time, lines 83-97: the first format that parses wins; ValueError
\* when none does.
RECURSIVE extract_time_from(_, _)
extract_time_from(time_str, i) ==
    IF i > Len(TIME_FORMATS) THEN "ValueError"
    ELSE IF strptime(time_str, TIME_FORMATS[i]) # "ValueError"
         THEN strptime(time_str, TIME_FORMATS[i])
         ELSE extract_time_from(time_str, i + 1)

extract_time(time_str) == extract_time_from(time_str, 1)

\* datetime.datetime.fromtimestamp(0)
EpochTime == "1970-01-01T00:00:00"

\* Follower.__init__, lines 133-152.
FollowerInit ==
    [ buffer |-> <<>>,
      cur_log_time |-> EpochTime,
      last_raw_time |-> "",
      cur_user |-> "None",
      cur_constructed_level |-> <<>>,
      cur_limited_level |-> <<>>,
      cur_opponent_level |-> <<>>,
      cur_opponent_match_id |-> "None",
      current_match_event_id |-> <<>>,
      starting_team_id |-> NoneInt,
      objects_by_owner |-> EmptyDict,
      opening_hand_count_by_seat |-> EmptyDict,
      opening_hand |-> EmptyDict,
      drawn_hands |-> EmptyDict,
      cards_in_hand |-> EmptyDict ]

\* Call contexts.
\* Besides self, net, out and exc a context records, for the properties: at,
\* the file line whose text triggers the publish calls being made; handed, the
\* entries passed to __handle_blob; blob_exc, what __handle_blob last raised.
Ctx(s, net) ==
    [self |-> s, net |-> net, out |-> <<>>, exc |-> "none",
     at |-> 0, handed |-> <<>>, blob_exc |-> "none"]
Raise(c, e) == [c EXCEPT !.exc = e]

\* A call of __retry_post(endpoint, blob) with the default budget, lines
\* 154-179: it meets the next outcomes of the network, is recorded in out, and
\* raises what requests.post raises.
Post(c, endpoint, blob) ==
    LET r == retry_post_result(Head(c.net), RETRIES)
    IN [c EXCEPT !.net = Tail(@),
                 !.out = Append(@, [endpoint |-> endpoint, blob |-> blob, at |-> c.at,
                                    attempts |-> r.attempts, status |-> r.status]),
                 !.exc = r.exc]

\* __clear_game_data, lines 437-442.
clear_game_data(s) ==
    [s EXCEPT !.objects_by_owner = EmptyDict,
              !.opening_hand_count_by_seat = EmptyDict,
              !.opening_hand = EmptyDict,
              !.drawn_hands = EmptyDict,
              !.starting_team_id = NoneInt]

-----------------------------------------------------------------------------
(* Record builders *)

ENDPOINT_USER == "api/account"
ENDPOINT_DECK_SUBMISSION == "deck"
ENDPOINT_EVENT_SUBMISSION == "event"
ENDPOINT_GAME_RESULT == "game"
ENDPOINT_DRAFT_PACK == "pack"
ENDPOINT_DRAFT_PICK == "pick"
ENDPOINT_HUMAN_DRAFT_PICK == "human_draft_pick"
ENDPOINT_COLLECTION == "collection"

\* json_value_matches, lines 99-114.
RECURSIVE json_value_matches(_, _, _)
json_value_matches(expectation, path, blob) ==
    IF path = <<>> THEN blob = expectation
    ELSE IF Head(path) \in DOMAIN blob
         THEN json_value_matches(expectation, Tail(path), blob[Head(path)])
         ELSE FALSE

\* get_rank_string, lines 116-128: the five components in order, each as
\* str() prints it (a missing one prints "None"); the joined string is
\* modelled by the sequence of its '-'-separated fields.
get_rank_string(rank_class, level, percentile, place, step) ==
    <<rank_class, level, percentile, place, step>>

\* All the keys are present in the dict.
HasAll(d, keys) == \A k \in keys : k \in DOMAIN d

\* The values of a dict (keyed by integers) as a list, by ascending key.
RECURSIVE ValuesOf(_)
ValuesOf(d) ==
    IF DOMAIN d = {} THEN <<>>
    ELSE LET k == CHOOSE x \in DOMAIN d : \A y \in DOMAIN d : x <= y
         IN <<d[k]>> \o ValuesOf([y \in DOMAIN d \ {k} |-> d[y]])

\* __send_game_end, lines 488-519.  g holds the keyword arguments.
send_game_end(c, g) ==
    LET s0 == c.self
        opponent_id == IF g.seat_id = 1 THEN 2 ELSE 1
        opponent_card_ids == ValuesOf(Get(s0.objects_by_owner, opponent_id, EmptyDict))
        s1 == IF g.match_id # s0.cur_opponent_match_id
              THEN [s0 EXCEPT !.cur_opponent_level = <<>>] ELSE s0
        s2 == [s1 EXCEPT !.opening_hand = Touch(@, g.seat_id, <<>>)]
        s3 == [s2 EXCEPT !.opening_hand_count_by_seat = Touch(@, g.seat_id, 0)]
        s4 == [s3 EXCEPT !.opening_hand_count_by_seat = Touch(@, opponent_id, 0)]
        game == [ player_id |-> s4.cur_user,
                  event_name |-> g.event_name,
                  match_id |-> g.match_id,
                  time |-> s4.cur_log_time,
                  on_play |-> g.on_play,
                  won |-> g.won,
                  win_type |-> g.win_type,
                  game_end_reason |-> g.game_end_reason,
                  opening_hand |-> s4.opening_hand[g.seat_id],
                  mulligans |-> g.mulliganed_hands,
                  mulligan_count |-> s4.opening_hand_count_by_seat[g.seat_id] - 1,
                  opponent_mulligan_count |-> s4.opening_hand_count_by_seat[opponent_id] - 1,
                  turns |-> g.turn_count,
                  duration |-> g.duration,
                  opponent_card_ids |-> opponent_card_ids,
                  limited_rank |-> s4.cur_limited_level,
                  constructed_rank |-> s4.cur_constructed_level,
                  opponent_rank |-> s4.cur_opponent_level ]
    IN Post([c EXCEPT !.self = clear_game_data(s4)], ENDPOINT_GAME_RESULT, game)

GameStopKeys == {"seatId", "matchId", "mulliganedHands", "eventId", "teamId",
                 "startingTeamId", "winningTeamId", "winningType", "winningReason",
                 "turnCount", "secondsCount"}

\* [[x['grpId'] for x in hand] for hand in hands]
GrpIdsOf(hands) == [i \in 1..Len(hands) |-> [j \in 1..Len(hands[i]) |-> hands[i][j].grpId]]

\* The handler clearing the game data before it reads the payload.
handle_game_end_clear_first(c, json_obj) ==
    LET K(c1) ==
          IF ~Has(json_obj.params, "payloadObject") THEN Raise(c1, "KeyError")
          ELSE IF ~HasAll(json_obj.params.payloadObject, GameStopKeys)
          THEN Raise(c1, "KeyError")
          ELSE send_game_end(c1,
                  [ seat_id |-> json_obj.params.payloadObject.seatId,
                    match_id |-> json_obj.params.payloadObject.matchId,
                    mulliganed_hands |-> GrpIdsOf(json_obj.params.payloadObject.mulliganedHands),
                    event_name |-> json_obj.params.payloadObject.eventId,
                    on_play |-> json_obj.params.payloadObject.teamId
                                    = json_obj.params.payloadObject.startingTeamId,
                    won |-> json_obj.params.payloadObject.teamId
                                = json_obj.params.payloadObject.winningTeamId,
                    win_type |-> json_obj.params.payloadObject.winningType,
                    game_end_reason |-> json_obj.params.payloadObject.winningReason,
                    turn_count |-> json_obj.params.payloadObject.turnCount,
                    duration |-> json_obj.params.payloadObject.secondsCount ])
    IN K([c EXCEPT !.self = clear_game_data(@)])

\* __handle_game_end, lines 472-486.
handle_game_end(c, json_obj) ==
    IF ~Has(json_obj.params, "payloadObject") THEN Raise(c, "KeyError")
    ELSE LET blob == json_obj.params.payloadObject
         IN IF ~HasAll(blob, GameStopKeys) THEN Raise(c, "KeyError")
            ELSE IF \E i \in 1..Len(blob.mulliganedHands) :
                       \E j \in 1..Len(blob.mulliganedHands[i]) :
                           ~Has(blob.mulliganedHands[i][j], "grpId")
            THEN Raise(c, "KeyError")
            ELSE send_game_end(c,
                    [ seat_id |-> blob.seatId,
                      match_id |-> blob.matchId,
                      mulliganed_hands |-> GrpIdsOf(blob.mulliganedHands),
                      event_name |-> blob.eventId,
                      on_play |-> blob.teamId = blob.startingTeamId,
                      won |-> blob.teamId = blob.winningTeamId,
                      win_type |-> blob.winningType,
                      game_end_reason |-> blob.winningReason,
                      turn_count |-> blob.turnCount,
                      duration |-> blob.secondsCount ])

\* __handle_login, lines 521-534.
handle_login(c, json_obj) ==
    LET c1 == [c EXCEPT !.self = clear_game_data(@)]
    IN IF ~Has(json_obj.params, "payloadObject") THEN Raise(c1, "KeyError")
       ELSE LET po == json_obj.params.payloadObject
            IN IF ~Has(po, "playerId") THEN Raise(c1, "KeyError")
               ELSE LET c2 == [c1 EXCEPT !.self.cur_user = po.playerId]
                    IN IF ~Has(po, "screenName") THEN Raise(c2, "KeyError")
                       ELSE Post(c2, ENDPOINT_USER,
                                 [ player_id |-> c2.self.cur_user,
                                   screen_name |-> po.screenName,
                                   raw_time |-> c2.self.last_raw_time ])

\* __handle_match_started, lines 335-345.
handle_match_started(c, blob) ==
    LET game_room_config ==
            Get(Get(Get(blob, "matchGameRoomStateChangedEvent", EmptyDict),
                    "gameRoomInfo", EmptyDict), "gameRoomConfig", EmptyDict)
    IN IF Has(game_room_config, "eventId") /\ Has(game_room_config, "matchId")
       THEN [c EXCEPT !.self.current_match_event_id =
                          <<game_room_config.matchId, game_room_config.eventId>>]
       ELSE c

\* __handle_self_rank_info, lines 618-635.
handle_self_rank_info(c, json_obj) ==
    [c EXCEPT
        !.self.cur_limited_level =
            get_rank_string(Get(json_obj, "limitedClass", "None"),
                            Get(json_obj, "limitedLevel", "None"),
                            Get(json_obj, "limitedPercentile", "None"),
                            Get(json_obj, "limitedLeaderboardPlace", "None"),
                            Get(json_obj, "limitedStep", "None")),
        !.self.cur_constructed_level =
            get_rank_string(Get(json_obj, "constructedClass", "None"),
                            Get(json_obj, "constructedLevel", "None"),
                            Get(json_obj, "constructedPercentile", "None"),
                            Get(json_obj, "constructedLeaderboardPlace", "None"),
                            Get(json_obj, "constructedStep", "None")),
        !.self.cur_user = Get(json_obj, "playerId", @)]

\* The handler keeping the match id it already holds.
handle_match_created_first_id(c, json_obj) ==
    [c EXCEPT !.self =
        [clear_game_data(c.self) EXCEPT
            !.cur_opponent_level =
                get_rank_string(Get(json_obj, "opponentRankingClass", "None"),
                                Get(json_obj, "opponentRankingTier", "None"),
                                Get(json_obj, "opponentMythicPercentile", "None"),
                                Get(json_obj, "opponentMythicLeaderboardPlace", "None"),
                                "None"),
            !.cur_opponent_match_id =
                IF @ = "None" THEN Get(json_obj, "matchId", "None") ELSE @]]

\* __handle_match_created, lines 637-648.
handle_match_created(c, json_obj) ==
    LET s1 == clear_game_data(c.self)
    IN [c EXCEPT !.self =
            [s1 EXCEPT
                !.cur_opponent_level =
                    get_rank_string(Get(json_obj, "opponentRankingClass", "None"),
                                    Get(json_obj, "opponentRankingTier", "None"),
                                    Get(json_obj, "opponentMythicPercentile", "None"),
                                    Get(json_obj, "opponentMythicLeaderboardPlace", "None"),
                                    "None"),
                !.cur_opponent_match_id = Get(json_obj, "matchId", "None")]]

-----------------------------------------------------------------------------
(* State aggregator: the GRE messages *)

\* The whole list, the last hand included.
WholeList(l) == l

\* some_list[:-1]
AllButLast(l) == IF l = <<>> THEN <<>> ELSE SubSeq(l, 1, Len(l) - 1)

RECURSIVE SumTurnNumbers(_)
SumTurnNumbers(players) ==
    IF players = <<>> THEN 0
    ELSE Head(players).turnNumber + SumTurnNumbers(Tail(players))

\* The first result whose scope is MatchScope_Game, instead of the last.
FirstGameScopeResult(results) ==
    LET hits == {i \in 1..Len(results) : Get(results[i], "scope", "None") = "MatchScope_Game"}
    IN IF hits = {} THEN 0 ELSE CHOOSE i \in hits : \A j \in hits : i <= j

\* The index of the last result whose scope is MatchScope_Game; 0 when none
\* (the for loop over reversed(results), lines 403-405).
LastGameScopeResult(results) ==
    LET hits == {i \in 1..Len(results) : Get(results[i], "scope", "None") = "MatchScope_Game"}
    IN IF hits = {} THEN 0 ELSE CHOOSE i \in hits : \A j \in hits : j <= i

\* __maybe_handle_game_over_stage, lines 397-434.
maybe_handle_game_over_stage(c, system_seat_ids, game_state_message) ==
    LET game_info == Get(game_state_message, "gameInfo", EmptyDict)
        results == Get(game_info, "results", <<>>)
        r == LastGameScopeResult(results)
    IN IF Get(game_info, "stage", "None") # "GameStage_GameOver" THEN c
       ELSE IF r = 0 THEN c
       ELSE IF system_seat_ids = <<>> THEN Raise(c, "IndexError")
       ELSE IF ~Has(game_info, "matchID") THEN Raise(c, "KeyError")
       ELSE
        LET result == results[r]
            seat_id == system_seat_ids[1]
            match_id == game_info.matchID
            cme == c.self.current_match_event_id
            event_id == IF cme # <<>> /\ cme[1] = match_id THEN cme[2] ELSE "None"
            turn_info == Get(game_state_message, "turnInfo", EmptyDict)
            players == Get(game_state_message, "players", <<>>)
            c1 == [c EXCEPT !.self.drawn_hands = Touch(@, seat_id, <<>>)]
        IN IF ~Has(turn_info, "turnNumber")
              /\ \E i \in 1..Len(players) : ~Has(players[i], "turnNumber")
           THEN Raise(c, "KeyError")
           ELSE IF ~HasAll(result, {"winningTeamId", "result", "reason"})
           THEN Raise(c1, "KeyError")
           ELSE send_game_end(c1,
                    [ seat_id |-> seat_id,
                      match_id |-> match_id,
                      mulliganed_hands |-> AllButLast(c1.self.drawn_hands[seat_id]),
                      event_name |-> event_id,
                      on_play |-> seat_id = c1.self.starting_team_id,
                      won |-> seat_id = result.winningTeamId,
                      win_type |-> result.result,
                      game_end_reason |-> result.reason,
                      turn_count |-> IF Has(turn_info, "turnNumber") THEN turn_info.turnNumber
                                     ELSE IF Len(players) > 0 THEN SumTurnNumbers(players)
                                     ELSE -1,
                      duration |-> -1 ])

\* The loop recording every game object, whatever its kind.
RECURSIVE track_game_objects_all(_, _)
track_game_objects_all(c, game_objects) ==
    IF game_objects = <<>> THEN c
    ELSE track_game_objects_all(
            [c EXCEPT !.self.objects_by_owner =
                [Touch(@, Head(game_objects).ownerSeatId, EmptyDict)
                    EXCEPT ![Head(game_objects).ownerSeatId] =
                        (Head(game_objects).instanceId :> Head(game_objects).overlayGrpId) @@ @]],
            Tail(game_objects))

\* The loop over gameObjects, lines 363-370.
RECURSIVE track_game_objects(_, _)
track_game_objects(c, game_objects) ==
    IF game_objects = <<>> \/ c.exc # "none" THEN c
    ELSE LET game_object == Head(game_objects)
         IN IF ~Has(game_object, "type") THEN Raise(c, "KeyError")
            ELSE IF game_object.type # "GameObjectType_Card"
            THEN track_game_objects(c, Tail(game_objects))
            ELSE IF ~HasAll(game_object, {"ownerSeatId", "instanceId", "overlayGrpId"})
            THEN Raise(c, "KeyError")
            ELSE LET owner == game_object.ownerSeatId
                     by_owner == Touch(c.self.objects_by_owner, owner, EmptyDict)
                     c1 == [c EXCEPT !.self.objects_by_owner =
                               [by_owner EXCEPT ![owner] =
                                   (game_object.instanceId :> game_object.overlayGrpId) @@ @]]
                 IN track_game_objects(c1, Tail(game_objects))

\* The recorded cards of the listed objects, last listed first.
HandOf_reversed(player_objects, hand_card_ids) ==
    [i \in 1..Len(hand_card_ids) |->
        Get(player_objects, hand_card_ids[Len(hand_card_ids) + 1 - i], NoneInt)]

\* [player_objects.get(instance_id) for instance_id in hand_card_ids if instance_id]
RECURSIVE HandOf(_, _)
HandOf(player_objects, hand_card_ids) ==
    IF hand_card_ids = <<>> THEN <<>>
    ELSE LET instance_id == Head(hand_card_ids)
         IN (IF instance_id # 0 THEN <<Get(player_objects, instance_id, NoneInt)>> ELSE <<>>)
            \o HandOf(player_objects, Tail(hand_card_ids))

\* The loop over zones, lines 372-377.
RECURSIVE track_zones(_, _)
track_zones(c, zones) ==
    IF zones = <<>> \/ c.exc # "none" THEN c
    ELSE LET zone == Head(zones)
         IN IF ~Has(zone, "type") THEN Raise(c, "KeyError")
            ELSE IF zone.type # "ZoneType_Hand" THEN track_zones(c, Tail(zones))
            ELSE IF ~Has(zone, "ownerSeatId") THEN Raise(c, "KeyError")
            ELSE LET owner == zone.ownerSeatId
                     by_owner == Touch(c.self.objects_by_owner, owner, EmptyDict)
                     hand == HandOf(by_owner[owner], Get(zone, "objectInstanceIds", <<>>))
                     c1 == [c EXCEPT !.self.objects_by_owner = by_owner,
                                     !.self.cards_in_hand = (owner :> hand) @@ @]
                 IN track_zones(c1, Tail(zones))

\* The players pending a mulligan decision in a game-state message.
IsDeciding(p) == Get(p, "pendingMessageType", "None") = "ClientMessageType_MulliganResp"

\* players_deciding_hand, lines 380-384: a set of (seat, mulligan count).
players_deciding_hand(players) ==
    { <<players[i].systemSeatNumber, Get(players[i], "mulliganCount", 0)>> :
        i \in {j \in 1..Len(players) : IsDeciding(players[j])} }

\* The loop over players_deciding_hand, lines 385-391, taken by ascending
\* seat and then mulligan count.
RECURSIVE track_mulligans(_, _, _)
track_mulligans(s, deciding, turn_info) ==
    IF deciding = {} THEN s
    ELSE LET d == CHOOSE x \in deciding : \A y \in deciding :
                      x[1] < y[1] \/ (x[1] = y[1] /\ x[2] <= y[2])
             player_id == d[1]
             mulligan_count == d[2]
             s1 == IF s.starting_team_id = NoneInt
                   THEN [s EXCEPT !.starting_team_id = Get(turn_info, "activePlayer", NoneInt)]
                   ELSE s
             s2 == [s1 EXCEPT !.opening_hand_count_by_seat =
                        [Touch(@, player_id, 0) EXCEPT ![player_id] = @ + 1]]
             s3 == [s2 EXCEPT !.drawn_hands = Touch(@, player_id, <<>>)]
             s4 == IF mulligan_count = Len(s3.drawn_hands[player_id])
                   THEN LET s5 == [s3 EXCEPT !.cards_in_hand = Touch(@, player_id, <<>>)]
                        IN [s5 EXCEPT !.drawn_hands[player_id] =
                                          Append(@, s5.cards_in_hand[player_id])]
                   ELSE s3
         IN track_mulligans(s4, deciding \ {d}, turn_info)

\* The capture without the test that nothing was captured yet.
capture_opening_hand_always(s, turn_info) ==
    IF /\ Get(turn_info, "phase", "None") = "Phase_Beginning"
       /\ Get(turn_info, "step", "None") = "Step_Upkeep"
       /\ Has(turn_info, "turnNumber") /\ turn_info.turnNumber = 1
    THEN [s EXCEPT !.opening_hand = s.cards_in_hand]
    ELSE s

\* Lines 393-395: the opening hands are captured once.
capture_opening_hand(s, turn_info) ==
    IF DOMAIN s.opening_hand = {}
       /\ Get(turn_info, "phase", "None") = "Phase_Beginning"
       /\ Get(turn_info, "step", "None") = "Step_Upkeep"
       /\ Has(turn_info, "turnNumber") /\ turn_info.turnNumber = 1
    THEN [s EXCEPT !.opening_hand = s.cards_in_hand]
    ELSE s

\* __handle_gre_to_client_message, lines 348-395.
handle_gre_to_client_message(c, message_blob) ==
    IF ~Has(message_blob, "type") THEN Raise(c, "KeyError")
    ELSE IF message_blob.type = "GREMessageType_SubmitDeckReq"
    THEN IF ~Has(message_blob, "submitDeckReq") THEN Raise(c, "KeyError")
         ELSE IF ~Has(message_blob.submitDeckReq, "deck") THEN Raise(c, "KeyError")
         ELSE IF ~Has(message_blob.submitDeckReq.deck, "deckCards") THEN Raise(c, "KeyError")
         ELSE Post(c, ENDPOINT_DECK_SUBMISSION,
                   [ player_id |-> c.self.cur_user,
                     time |-> c.self.cur_log_time,
                     maindeck_card_ids |-> message_blob.submitDeckReq.deck.deckCards,
                     sideboard_card_ids |-> Get(message_blob.submitDeckReq.deck, "sideboardCards", <<>>),
                     is_during_match |-> TRUE ])
    ELSE IF message_blob.type = "GREMessageType_GameStateMessage"
    THEN LET game_state_message == Get(message_blob, "gameStateMessage", EmptyDict)
             turn_info == Get(game_state_message, "turnInfo", EmptyDict)
             players == Get(game_state_message, "players", <<>>)
             \* lines 379-395, reached with the context c3 the loops above leave
             Hands(c3) ==
                IF c3.exc # "none" THEN c3
                ELSE IF \E i \in 1..Len(players) :
                           IsDeciding(players[i]) /\ ~Has(players[i], "systemSeatNumber")
                THEN Raise(c3, "KeyError")
                ELSE [c3 EXCEPT !.self =
                        capture_opening_hand(
                            track_mulligans(@, players_deciding_hand(players), turn_info),
                            turn_info)]
         IN Hands(track_zones(
                track_game_objects(
                    maybe_handle_game_over_stage(c, Get(message_blob, "systemSeatIds", <<>>),
                                                 game_state_message),
                    Get(game_state_message, "gameObjects", <<>>)),
                Get(game_state_message, "zones", <<>>)))
    ELSE c

\* The loop over greToClientMessages, lines 314-315.
RECURSIVE handle_gre_messages(_, _)
handle_gre_messages(c, messages) ==
    IF messages = <<>> \/ c.exc # "none" THEN c
    ELSE handle_gre_messages(handle_gre_to_client_message(c, Head(messages)), Tail(messages))

-----------------------------------------------------------------------------
(* Record builders: drafts, decks, events, collection *)

\* some_string.rsplit(':', 2), the string given as its ':'-separated fields:
\* the last two fields and what precedes them.
RSplit2(fields) ==
    IF Len(fields) < 3 THEN fields
    ELSE <<SubSeq(fields, 1, Len(fields) - 2), fields[Len(fields) - 1], fields[Len(fields)]>>

\* __handle_draft_log, lines 536-550.
handle_draft_log(c, json_obj) ==
    IF json_obj.DraftStatus # "Draft.PickNext" THEN c
    ELSE LET c1 == [c EXCEPT !.self = clear_game_data(@)]
         IN IF ~Has(json_obj, "DraftId") THEN Raise(c1, "KeyError")
            ELSE IF Len(RSplit2(json_obj.DraftId)) # 3 THEN Raise(c1, "ValueError")
            ELSE IF ~HasAll(json_obj, {"PackNumber", "PickNumber", "DraftPack"})
            THEN Raise(c1, "KeyError")
            ELSE Post(c1, ENDPOINT_DRAFT_PACK,
                      [ player_id |-> c1.self.cur_user,
                        event_name |-> RSplit2(json_obj.DraftId)[2],
                        time |-> c1.self.cur_log_time,
                        pack_number |-> json_obj.PackNumber,
                        pick_number |-> json_obj.PickNumber,
                        card_ids |-> json_obj.DraftPack ])

\* __handle_draft_pick, lines 552-567.
handle_draft_pick(c, json_obj) ==
    LET c1 == [c EXCEPT !.self = clear_game_data(@)]
    IN IF ~Has(json_obj, "params") THEN Raise(c1, "KeyError")
       ELSE IF ~Has(json_obj.params, "draftId") THEN Raise(c1, "KeyError")
       ELSE IF Len(RSplit2(json_obj.params.draftId)) # 3 THEN Raise(c1, "ValueError")
       ELSE IF ~HasAll(json_obj.params, {"packNumber", "pickNumber", "cardId"})
       THEN Raise(c1, "KeyError")
       ELSE Post(c1, ENDPOINT_DRAFT_PICK,
                 [ player_id |-> c1.self.cur_user,
                   event_name |-> RSplit2(json_obj.params.draftId)[2],
                   time |-> c1.self.cur_log_time,
                   pack_number |-> json_obj.params.packNumber,
                   pick_number |-> json_obj.params.pickNumber,
                   card_id |-> json_obj.params.cardId ])

\* __handle_human_draft_pick, lines 569-583.
handle_human_draft_pick(c, json_obj) ==
    LET c1 == [c EXCEPT !.self = clear_game_data(@)]
    IN IF ~Has(json_obj, "params") THEN Raise(c1, "KeyError")
       ELSE IF ~HasAll(json_obj.params, {"draftId", "packNumber", "pickNumber", "cardId"})
       THEN Raise(c1, "KeyError")
       ELSE Post(c1, ENDPOINT_HUMAN_DRAFT_PICK,
                 [ player_id |-> c1.self.cur_user,
                   time |-> c1.self.cur_log_time,
                   draft_id |-> json_obj.params.draftId,
                   pack_number |-> json_obj.params.packNumber,
                   pick_number |-> json_obj.params.pickNumber,
                   card_id |-> json_obj.params.cardId ])

\* [d['Id'] for d in decklist for i in range(d['Quantity'])]
RECURSIVE Repeat(_, _)
Repeat(x, n) == IF n <= 0 THEN <<>> ELSE <<x>> \o Repeat(x, n - 1)

RECURSIVE ExpandDeck(_)
ExpandDeck(decklist) ==
    IF decklist = <<>> THEN <<>>
    ELSE Repeat(Head(decklist).Id, Head(decklist).Quantity) \o ExpandDeck(Tail(decklist))

\* A string holding a JSON document is modelled by [decodes, value]: whether
\* json.loads / raw_decode accepts it, and the value it then yields.
\* __handle_deck_submission, lines 585-599.
handle_deck_submission(c, json_obj) ==
    LET c1 == [c EXCEPT !.self = clear_game_data(@)]
    IN IF ~Has(json_obj, "params") THEN Raise(c1, "KeyError")
       ELSE IF ~Has(json_obj.params, "deck") THEN Raise(c1, "KeyError")
       ELSE IF ~json_obj.params.deck.decodes THEN Raise(c1, "JSONDecodeError")
       ELSE LET deck_info == json_obj.params.deck.value
            IN IF ~Has(json_obj.params, "eventName") THEN Raise(c1, "KeyError")
               ELSE IF ~HasAll(deck_info, {"mainDeck", "sideboard"}) THEN Raise(c1, "KeyError")
               ELSE IF \E l \in {deck_info.mainDeck, deck_info.sideboard} :
                          \E i \in 1..Len(l) : ~HasAll(l[i], {"Id", "Quantity"})
               THEN Raise(c1, "KeyError")
               ELSE Post(c1, ENDPOINT_DECK_SUBMISSION,
                         [ player_id |-> c1.self.cur_user,
                           event_name |-> json_obj.params.eventName,
                           time |-> c1.self.cur_log_time,
                           maindeck_card_ids |-> ExpandDeck(deck_info.mainDeck),
                           sideboard_card_ids |-> ExpandDeck(deck_info.sideboard),
                           is_during_match |-> FALSE ])

\* Every card identifier of the list once, whatever its count.
get_card_ids_once(decklist) ==
    [i \in 1..(Len(decklist) \div 2) |-> decklist[2 * i - 1]]

\* __get_card_ids_from_decklist_v3, lines 660-669 (the assertion of line 662
\* is checked by the caller below).
RECURSIVE get_card_ids_from_decklist_v3(_)
get_card_ids_from_decklist_v3(decklist) ==
    IF Len(decklist) < 2 THEN <<>>
    ELSE Repeat(decklist[1], decklist[2])
         \o get_card_ids_from_decklist_v3(SubSeq(decklist, 3, Len(decklist)))

\* The handler without the length assertion of the decklist parser.
handle_deck_submission_v3_unasserted(c, json_obj) ==
    LET deck_info == json_obj.params.deck.value
    IN Post([c EXCEPT !.self = clear_game_data(@)], ENDPOINT_DECK_SUBMISSION,
            [ player_id |-> c.self.cur_user,
              event_name |-> json_obj.params.eventName,
              time |-> c.self.cur_log_time,
              maindeck_card_ids |-> get_card_ids_from_decklist_v3(deck_info.mainDeck),
              sideboard_card_ids |-> get_card_ids_from_decklist_v3(deck_info.sideboard),
              is_during_match |-> FALSE,
              companion |-> Get(deck_info, "companionGRPId", NoneInt) ])

\* __handle_deck_submission_v3, lines 601-616.
handle_deck_submission_v3(c, json_obj) ==
    LET c1 == [c EXCEPT !.self = clear_game_data(@)]
    IN IF ~Has(json_obj, "params") THEN Raise(c1, "KeyError")
       ELSE IF ~Has(json_obj.params, "deck") THEN Raise(c1, "KeyError")
       ELSE IF ~json_obj.params.deck.decodes THEN Raise(c1, "JSONDecodeError")
       ELSE LET deck_info == json_obj.params.deck.value
            IN IF ~Has(json_obj.params, "eventName") THEN Raise(c1, "KeyError")
               ELSE IF ~Has(deck_info, "mainDeck") THEN Raise(c1, "KeyError")
               ELSE IF Len(deck_info.mainDeck) % 2 # 0 THEN Raise(c1, "AssertionError")
               ELSE IF ~Has(deck_info, "sideboard") THEN Raise(c1, "KeyError")
               ELSE IF Len(deck_info.sideboard) % 2 # 0 THEN Raise(c1, "AssertionError")
               ELSE Post(c1, ENDPOINT_DECK_SUBMISSION,
                         [ player_id |-> c1.self.cur_user,
                           event_name |-> json_obj.params.eventName,
                           time |-> c1.self.cur_log_time,
                           maindeck_card_ids |-> get_card_ids_from_decklist_v3(deck_info.mainDeck),
                           sideboard_card_ids |-> get_card_ids_from_decklist_v3(deck_info.sideboard),
                           is_during_match |-> FALSE,
                           companion |-> Get(deck_info, "companionGRPId", NoneInt) ])

\* __handle_event_completion, lines 459-470.
handle_event_completion(c, json_obj) ==
    IF ~Has(json_obj, "InternalEventName") THEN Raise(c, "KeyError")
    ELSE IF ~Has(json_obj, "ModuleInstanceData") THEN Raise(c, "KeyError")
    ELSE IF ~Has(json_obj.ModuleInstanceData, "HasPaidEntry") THEN Raise(c, "KeyError")
    ELSE IF ~Has(json_obj.ModuleInstanceData, "WinLossGate") THEN Raise(c, "KeyError")
    ELSE IF ~HasAll(json_obj.ModuleInstanceData.WinLossGate, {"CurrentWins", "CurrentLosses"})
    THEN Raise(c, "KeyError")
    ELSE Post(c, ENDPOINT_EVENT_SUBMISSION,
              [ player_id |-> c.self.cur_user,
                event_name |-> json_obj.InternalEventName,
                time |-> c.self.cur_log_time,
                entry_fee |-> json_obj.ModuleInstanceData.HasPaidEntry,
                wins |-> json_obj.ModuleInstanceData.WinLossGate.CurrentWins,
                losses |-> json_obj.ModuleInstanceData.WinLossGate.CurrentLosses ])

\* __handle_collection, lines 650-658.
handle_collection(c, json_obj) ==
    Post(c, ENDPOINT_COLLECTION,
         [ player_id |-> c.self.cur_user,
           time |-> c.self.cur_log_time,
           card_counts |-> json_obj ])

-----------------------------------------------------------------------------
(* Payload extractor and classifier *)

\* A decoded JSON value is [t, v]: t is "dict", "list" or "scalar" and v the
\* value.  The text of a log line, as far as decoding goes, is its json field:
\* [t |-> "none"] when the line holds no '[' or '{', [t |-> "bad"] when what
\* follows its first '[' or '{' is not JSON, and otherwise the value decoded
\* there.

\* The unwrapping that looks at 'request' before 'payload'.
extract_payload_request_first(blob) ==
    IF blob.t # "dict" THEN blob
    ELSE IF ~Has(blob.v, "id") THEN blob
    ELSE IF Has(blob.v, "request") /\ blob.v.request.decodes THEN blob.v.request.value
    ELSE IF Has(blob.v, "payload") THEN blob.v.payload
    ELSE blob

\* __extract_payload, lines 323-333.
extract_payload(blob) ==
    IF blob.t # "dict" THEN blob
    ELSE IF ~Has(blob.v, "id") THEN blob
    ELSE IF Has(blob.v, "payload") THEN blob.v.payload
    ELSE IF Has(blob.v, "request") /\ blob.v.request.decodes THEN blob.v.request.value
    ELSE blob

\* The chain of lines 295-321 with the DraftStatus test moved to its head.
Classify_draft_first(json_obj, full_log) ==
    IF Has(json_obj, "DraftStatus") THEN "draft_log"
    ELSE IF json_value_matches("Client.Connected", <<"params", "messageName">>, json_obj)
    THEN "login"
    ELSE IF json_value_matches("DuelScene.GameStop", <<"params", "messageName">>, json_obj)
    THEN "game_end"
    ELSE IF json_value_matches("Draft.MakePick", <<"method">>, json_obj) THEN "draft_pick"
    ELSE IF json_value_matches("Draft.MakeHumanDraftPick", <<"method">>, json_obj)
    THEN "human_draft_pick"
    ELSE IF json_value_matches("Event.DeckSubmit", <<"method">>, json_obj)
    THEN "deck_submission"
    ELSE IF json_value_matches("Event.DeckSubmitV3", <<"method">>, json_obj)
    THEN "deck_submission_v3"
    ELSE IF json_value_matches("DoneWithMatches", <<"CurrentEventState">>, json_obj)
    THEN "event_completion"
    ELSE IF Has(json_obj, "matchGameRoomStateChangedEvent") THEN "match_started"
    ELSE IF Has(json_obj, "greToClientEvent")
            /\ Has(json_obj.greToClientEvent, "greToClientMessages")
    THEN "gre"
    ELSE IF Has(json_obj, "limitedStep") THEN "self_rank_info"
    ELSE IF Has(json_obj, "opponentRankingClass") THEN "match_created"
    ELSE IF (\E i \in 1..Len(full_log) : full_log[i].coll) /\ ~Has(json_obj, "method")
    THEN "collection"
    ELSE "ignored"

\* The if/elif chain of lines 295-321: the handler a message is routed to.
Classify(json_obj, full_log) ==
    IF json_value_matches("Client.Connected", <<"params", "messageName">>, json_obj)
    THEN "login"
    ELSE IF json_value_matches("DuelScene.GameStop", <<"params", "messageName">>, json_obj)
    THEN "game_end"
    ELSE IF Has(json_obj, "DraftStatus") THEN "draft_log"
    ELSE IF json_value_matches("Draft.MakePick", <<"method">>, json_obj) THEN "draft_pick"
    ELSE IF json_value_matches("Draft.MakeHumanDraftPick", <<"method">>, json_obj)
    THEN "human_draft_pick"
    ELSE IF json_value_matches("Event.DeckSubmit", <<"method">>, json_obj)
    THEN "deck_submission"
    ELSE IF json_value_matches("Event.DeckSubmitV3", <<"method">>, json_obj)
    THEN "deck_submission_v3"
    ELSE IF json_value_matches("DoneWithMatches", <<"CurrentEventState">>, json_obj)
    THEN "event_completion"
    ELSE IF Has(json_obj, "matchGameRoomStateChangedEvent") THEN "match_started"
    ELSE IF Has(json_obj, "greToClientEvent")
            /\ Has(json_obj.greToClientEvent, "greToClientMessages")
    THEN "gre"
    ELSE IF Has(json_obj, "limitedStep") THEN "self_rank_info"
    ELSE IF Has(json_obj, "opponentRankingClass") THEN "match_created"
    ELSE IF (\E i \in 1..Len(full_log) : full_log[i].coll) /\ ~Has(json_obj, "method")
    THEN "collection"
    ELSE "ignored"

\* The handler calls of lines 295-321.
Dispatch(c, json_obj, full_log) ==
    LET h == Classify(json_obj, full_log)
    IN CASE h = "login" -> handle_login(c, json_obj)
         [] h = "game_end" -> handle_game_end(c, json_obj)
         [] h = "draft_log" -> handle_draft_log(c, json_obj)
         [] h = "draft_pick" -> handle_draft_pick(c, json_obj)
         [] h = "human_draft_pick" -> handle_human_draft_pick(c, json_obj)
         [] h = "deck_submission" -> handle_deck_submission(c, json_obj)
         [] h = "deck_submission_v3" -> handle_deck_submission_v3(c, json_obj)
         [] h = "event_completion" -> handle_event_completion(c, json_obj)
         [] h = "match_started" -> handle_match_started(c, json_obj)
         [] h = "gre" -> handle_gre_messages(c, json_obj.greToClientEvent.greToClientMessages)
         [] h = "self_rank_info" -> handle_self_rank_info(c, json_obj)
         [] h = "match_created" -> handle_match_created(c, json_obj)
         [] h = "collection" -> handle_collection(c, json_obj)
         [] OTHER -> c

\* The lines of an entry that hold a '[' or '{' (JSON_START_REGEX).
JsonLines(full_log) == {i \in 1..Len(full_log) : full_log[i].json.t # "none"}

\* __handle_blob, lines 273-321.  full_log is the joined text of an entry,
\* given as the sequence of its lines.
handle_blob(c, full_log) ==
    IF JsonLines(full_log) = {} THEN c
    ELSE LET first == CHOOSE i \in JsonLines(full_log) : \A j \in JsonLines(full_log) : i <= j
             decoded == full_log[first].json
         IN IF decoded.t = "bad" THEN c
            ELSE LET json_obj == extract_payload(decoded)
                 IN IF json_obj.t # "dict" THEN c
                    ELSE Dispatch([c EXCEPT !.at = full_log[first].n], json_obj.v, full_log)

-----------------------------------------------------------------------------
(* Segmenter *)

\* A line of the log is a record
\*   n        its ordinal in the file (every line is a different text)
\*   start    "untimed" / "timed" when LOG_START_REGEX_UNTIMED / _TIMED match it,
\*            "none" otherwise
\*   time     the time string LOG_START_REGEX_TIMED (group 2) or TIMESTAMP_REGEX
\*            (group 1) finds at its head; "" when neither matches
\*   account  <<>>, or <<screen name, account id>> when ACCOUNT_INFO_REGEX matches
\*   json     what JSON decoding finds in it (see above)
\*   coll     whether it holds ' PlayerInventory.GetPlayerCardsV3 '
\* The text a line adds to the buffer (the line, or what follows its marker).
Text(line) == [n |-> line.n, json |-> line.json, coll |-> line.coll]

\* __maybe_handle_account_info, lines 444-456.
maybe_handle_account_info(c, line) ==
    IF line.account = <<>> THEN c
    ELSE LET c1 == [c EXCEPT !.self.cur_user = line.account[2], !.at = line.n]
         IN Post(c1, ENDPOINT_USER,
                 [ player_id |-> c1.self.cur_user,
                   screen_name |-> line.account[1],
                   raw_time |-> c1.self.last_raw_time ])

\* The note of an entry passed to __handle_blob: its lines, the last time
\* string seen when it was closed, and what __handle_blob raised.
Handed(c, full_log, exc) ==
    [lines |-> [i \in 1..Len(full_log) |-> full_log[i].n],
     raw_time |-> c.self.last_raw_time, exc |-> exc]

\* __handle_complete_log_entry without its try/except: what __handle_blob
\* raises propagates and the buffer keeps the entry.
handle_complete_log_entry_uncaught(c) ==
    IF Len(c.self.buffer) = 0 THEN c
    ELSE LET full_log == c.self.buffer
             Uncaught(c1) ==
                IF c1.exc # "none"
                THEN [c1 EXCEPT !.handed = Append(@, Handed(c, full_log, c1.exc)),
                                !.blob_exc = c1.exc]
                ELSE [c1 EXCEPT !.handed = Append(@, Handed(c, full_log, c1.exc)),
                                !.self.buffer = <<>>]
         IN Uncaught(handle_blob(c, full_log))

\* __handle_complete_log_entry, lines 237-253.
handle_complete_log_entry(c) ==
    IF Len(c.self.buffer) = 0 THEN c
    ELSE IF c.self.cur_log_time = "None" THEN [c EXCEPT !.self.buffer = <<>>]
    ELSE LET full_log == c.self.buffer
             \* lines 248-252, reached with the context c1 __handle_blob leaves
             Caught(c1) ==
                [c1 EXCEPT !.handed = Append(@, Handed(c, full_log, c1.exc)),
                           !.blob_exc = c1.exc, !.exc = "none", !.self.buffer = <<>>]
         IN Caught(handle_blob(c, full_log))

\* __append_line without line 225: a start marker does not close the open
\* entry, its line joins the buffer.
append_line_unsegmented(c, line) ==
    LET timestamp_match == line.start = "none" /\ line.time # ""
        Started(c4) ==
            IF line.start # "timed"
            THEN [c4 EXCEPT !.self.buffer = Append(@, Text(line))]
            ELSE IF extract_time(line.time) = "ValueError"
            THEN Raise([c4 EXCEPT !.self.last_raw_time = line.time], "ValueError")
            ELSE [c4 EXCEPT !.self.last_raw_time = line.time,
                            !.self.cur_log_time = extract_time(line.time),
                            !.self.buffer = Append(@, Text(line))]
        Scanned(c1) ==
            IF c1.exc # "none" THEN c1
            ELSE IF timestamp_match /\ extract_time(line.time) = "ValueError"
            THEN Raise([c1 EXCEPT !.self.last_raw_time = line.time], "ValueError")
            ELSE IF timestamp_match
            THEN [c1 EXCEPT !.self.last_raw_time = line.time,
                            !.self.cur_log_time = extract_time(line.time),
                            !.self.buffer = Append(@, Text(line))]
            ELSE IF line.start = "none"
            THEN [c1 EXCEPT !.self.buffer = Append(@, Text(line))]
            ELSE Started(c1)
    IN Scanned(maybe_handle_account_info(c, line))

\* __append_line, lines 214-235.
append_line(c, line) ==
    LET timestamp_match == line.start = "none" /\ line.time # ""
        \* lines 227-233, reached with the context c4 the close of the open entry leaves
        Started(c4) ==
            IF c4.exc # "none" THEN c4
            ELSE IF line.start # "timed"
            THEN [c4 EXCEPT !.self.buffer = Append(@, Text(line))]
            ELSE IF extract_time(line.time) = "ValueError"
            THEN Raise([c4 EXCEPT !.self.last_raw_time = line.time], "ValueError")
            ELSE [c4 EXCEPT !.self.last_raw_time = line.time,
                            !.self.cur_log_time = extract_time(line.time),
                            !.self.buffer = Append(@, Text(line))]
        \* lines 218-235, reached with the context c1 the account check leaves
        Scanned(c1) ==
            IF c1.exc # "none" THEN c1
            ELSE IF timestamp_match /\ extract_time(line.time) = "ValueError"
            THEN Raise([c1 EXCEPT !.self.last_raw_time = line.time], "ValueError")
            ELSE IF timestamp_match
            THEN [c1 EXCEPT !.self.last_raw_time = line.time,
                            !.self.cur_log_time = extract_time(line.time),
                            !.self.buffer = Append(@, Text(line))]
            ELSE IF line.start = "none"
            THEN [c1 EXCEPT !.self.buffer = Append(@, Text(line))]
            ELSE Started(handle_complete_log_entry(c1))
    IN Scanned(maybe_handle_account_info(c, line))

-----------------------------------------------------------------------------
(* The environment: messages and lines the writer emits, network outcomes *)

MsgLogin ==
    [params |-> [messageName |-> "Client.Connected",
                 payloadObject |-> [playerId |-> "u1", screenName |-> "Ann"]]]

MsgLoginNoPayload == [params |-> [messageName |-> "Client.Connected"]]

MsgGameStop(m) ==
    [params |-> [messageName |-> "DuelScene.GameStop",
                 payloadObject |->
                    [seatId |-> 1, matchId |-> m, mulliganedHands |-> <<>>,
                     eventId |-> "QuickDraft", teamId |-> 1, startingTeamId |-> 1,
                     winningTeamId |-> 1, winningType |-> "WinLoss",
                     winningReason |-> "Concede", turnCount |-> 7, secondsCount |-> 300]]]

GameOverInfo(m) ==
    [stage |-> "GameStage_GameOver", matchID |-> m,
     results |-> <<[scope |-> "MatchScope_Game", winningTeamId |-> 1,
                    result |-> "ResultType_WinLoss", reason |-> "ResultReason_Game"]>>]

GreEvent(messages) == [greToClientEvent |-> [greToClientMessages |-> messages]]

MsgGreGameOver(m) ==
    GreEvent(<<[type |-> "GREMessageType_GameStateMessage", systemSeatIds |-> <<1>>,
                gameStateMessage |-> [gameInfo |-> GameOverInfo(m)]]>>)

Dict(v) == [t |-> "dict", v |-> v]
NoJson == [t |-> "none"]
BadJson == [t |-> "bad"]

Line(start, time, account, json) ==
    [start |-> start, time |-> time, account |-> account, json |-> json, coll |-> FALSE]

\* The lines the writer may append in the file-level specification.
Lines ==
    { Line("untimed", "", <<>>, Dict(MsgLogin)),
      Line("untimed", "", <<>>, Dict(MsgLoginNoPayload)),
      Line("timed", "1/1/2020 10:00:05 AM", <<>>, Dict(MsgGameStop("m1"))),
      Line("timed", "2020-01-01 10:00:09: ", <<>>, NoJson),
      Line("untimed", "", <<>>, NoJson),
      Line("untimed", "", <<>>, Dict(MsgGreGameOver("m1"))),
      Line("none", "", <<>>, NoJson),
      Line("none", "", <<>>, Dict(MsgGreGameOver("m1"))),
      Line("none", "2020-01-01 10:00:00", <<>>, NoJson),
      Line("none", "2020.01.01 10:00:07", <<>>, NoJson),
      Line("none", "", <<"Bob", "u2">>, NoJson) }

\* What the successive POSTs of one publish call are answered with.
NetOk == <<200, 200, 200>>
NetDown == <<503, ConnectionError, 200>>
Nets == [1..PostsPerStep -> {NetOk, NetDown}]

-----------------------------------------------------------------------------
(* parse_log and the writer of the log *)

NoResult == [attempts |-> 0, status |-> NoneInt, exc |-> "none"]
NoRetry == [responses |-> <<>>, num_retries |-> 0, state |-> "idle", result |-> NoResult]

Tagged(out) == [i \in 1..Len(out) |-> [pass |-> opens] @@ out[i]]
Entries(c, by) == [i \in 1..Len(c.handed) |-> [pass |-> opens, by |-> by] @@ c.handed[i]]
Endpoints(out) == [i \in 1..Len(out) |-> out[i].endpoint]
Did(op, c) ==
    [op |-> op, exc |-> c.exc, blob_exc |-> c.blob_exc, out |-> Endpoints(c.out),
     handler |-> "none", prev |-> "none"]
Idle(op) ==
    [op |-> op, exc |-> "none", blob_exc |-> "none", out |-> <<>>,
     handler |-> "none", prev |-> "none"]

Init ==
    /\ self = FollowerInit
    /\ file = <<>>
    /\ exists = FALSE
    /\ modified = FALSE
    /\ follow \in BOOLEAN
    /\ pc = "init"
    /\ pos = 0
    /\ opens = 0
    /\ posted = <<>>
    /\ handed = <<>>
    /\ last = Idle("init")
    /\ rp = NoRetry

\* The application creates its log file.
CreateFile ==
    /\ ~exists
    /\ exists' = TRUE
    /\ modified' = (pc # "init")
    /\ UNCHANGED <<self, file, follow, pc, pos, opens, posted, handed, last, rp>>

\* The application appends a line.
WriteLine ==
    /\ exists
    /\ Len(file) < MaxLines
    /\ \E l \in Lines : file' = Append(file, [n |-> Len(file) + 1] @@ l)
    /\ modified' = (pc # "init")
    /\ UNCHANGED <<self, exists, follow, pc, pos, opens, posted, handed, last, rp>>

\* Line 189: parse_log is called; last_read_time = time.time().
Start ==
    /\ pc = "init"
    /\ pc' = "open"
    /\ modified' = FALSE
    /\ UNCHANGED <<self, file, exists, follow, pos, opens, posted, handed, last, rp>>

\* Lines 190-192 and 207-212: open(filename), or FileNotFoundError and a sleep.
Open ==
    /\ pc = "open"
    /\ IF exists
       THEN /\ opens < MaxOpens
            /\ opens' = opens + 1
            /\ pos' = 0
            /\ pc' = "read"
       ELSE /\ pc' = IF follow THEN "open" ELSE "done"
            /\ UNCHANGED <<opens, pos>>
    /\ last' = Idle("open")
    /\ UNCHANGED <<self, file, exists, modified, follow, posted, handed, rp>>

\* Lines 194-197: readline returns a line; __append_line; last_read_time.
ReadLine ==
    /\ pc = "read"
    /\ pos < Len(file)
    /\ \E net \in Nets : \E c \in {append_line(Ctx(self, net), file[pos + 1])} :
           /\ self' = c.self
           /\ posted' = posted \o Tagged(c.out)
           /\ handed' = handed \o Entries(c, "marker")
           /\ last' = Did("line", c)
           /\ pc' = IF c.exc = "none" THEN "read" ELSE "crashed"
           /\ modified' = IF c.exc = "none" THEN FALSE ELSE modified
    /\ pos' = pos + 1
    /\ UNCHANGED <<file, exists, follow, opens, rp>>

\* Lines 194 and 198-199: readline returns ''; the open entry is closed.
ReadEOF ==
    /\ pc = "read"
    /\ pos = Len(file)
    /\ \E net \in Nets : \E c \in {handle_complete_log_entry(Ctx(self, net))} :
           /\ self' = c.self
           /\ posted' = posted \o Tagged(c.out)
           /\ handed' = handed \o Entries(c, "eof")
           /\ last' = Did("eof", c)
           /\ pc' = IF c.exc = "none" THEN "stat" ELSE "crashed"
    /\ UNCHANGED <<file, exists, modified, follow, pos, opens, rp>>

\* Lines 200-212: os.stat(filename).st_mtime against last_read_time.
Stat ==
    /\ pc = "stat"
    /\ pc' = IF ~exists \/ modified
             THEN (IF follow THEN "open" ELSE "done")
             ELSE (IF follow THEN "read" ELSE "done")
    /\ last' = Idle("stat")
    /\ UNCHANGED <<self, file, exists, modified, follow, pos, opens, posted, handed, rp>>

Next == CreateFile \/ WriteLine \/ Start \/ Open \/ ReadLine \/ ReadEOF \/ Stat

Spec == Init /\ [][Next]_vars

-----------------------------------------------------------------------------
(* parse_log as a running process, beside a log that may also be taken away *)

\* The log file is removed or moved away.  What an open handle can still read
\* is unchanged; CreateFile brings the path back.
RemoveFile ==
    /\ exists
    /\ exists' = FALSE
    /\ UNCHANGED <<self, file, modified, follow, pc, pos, opens, posted, handed, last, rp>>

\* The lines the application appends here: a login entry, and a line whose
\* time string no format of TIME_FORMATS parses.
LiveLines ==
    { Line("untimed", "", <<>>, Dict(MsgLogin)),
      Line("none", "2020.01.01 10:00:07", <<>>, NoJson) }

WriteLiveLine ==
    /\ exists
    /\ Len(file) < MaxLines
    /\ \E l \in LiveLines : file' = Append(file, [n |-> Len(file) + 1] @@ l)
    /\ modified' = (pc # "init")
    /\ UNCHANGED <<self, exists, follow, pc, pos, opens, posted, handed, last, rp>>

NextLive ==
    CreateFile \/ WriteLiveLine \/ RemoveFile \/ Start \/ Open \/ ReadLine \/ ReadEOF \/ Stat

\* parse_log, once called, keeps taking its steps (the sleeps of lines 204 and
\* 208 end); nothing is assumed of the application that writes the log.
Fairness ==
    /\ WF_vars(Start)
    /\ WF_vars(Open)
    /\ WF_vars(ReadLine)
    /\ WF_vars(ReadEOF)
    /\ WF_vars(Stat)

SpecLive == Init /\ [][NextLive]_vars /\ Fairness

-----------------------------------------------------------------------------
(* The publisher alone: one call of __retry_post on any responses *)

InitRetry ==
    /\ self = FollowerInit
    /\ file = <<>>
    /\ exists = FALSE
    /\ modified = FALSE
    /\ follow = TRUE
    /\ pc = "init"
    /\ pos = 0
    /\ opens = 0
    /\ posted = <<>>
    /\ handed = <<>>
    /\ last = Idle("init")
    /\ rp \in [responses : [1..MaxRetryArg + 1 -> Outcomes],
               num_retries : 0..MaxRetryArg,
               state : {"call"},
               result : {NoResult}]

RetryPost ==
    /\ rp.state = "call"
    /\ rp' = [rp EXCEPT !.state = "done",
                        !.result = retry_post_result(rp.responses, rp.num_retries)]
    /\ UNCHANGED <<self, file, exists, modified, follow, pc, pos, opens, posted, handed, last>>

NextRetry == RetryPost

SpecRetry == InitRetry /\ [][NextRetry]_vars

-----------------------------------------------------------------------------
(* The message level: entries of one line each, read and closed one by one *)

Card(owner, instance_id, grp_id) ==
    [type |-> "GameObjectType_Card", ownerSeatId |-> owner,
     instanceId |-> instance_id, overlayGrpId |-> grp_id]

GameState(gsm) ==
    GreEvent(<<[type |-> "GREMessageType_GameStateMessage", systemSeatIds |-> <<1>>,
                gameStateMessage |-> gsm]>>)

MsgGreHand ==
    GameState([gameObjects |-> <<Card(1, 101, 7001), Card(2, 201, 7002)>>,
               zones |-> <<[type |-> "ZoneType_Hand", ownerSeatId |-> 1,
                            objectInstanceIds |-> <<101>>]>>])

MsgGreMulligan ==
    GameState([players |-> <<[systemSeatNumber |-> 1, mulliganCount |-> 0,
                              pendingMessageType |-> "ClientMessageType_MulliganResp"]>>,
               turnInfo |-> [activePlayer |-> 1]])

MsgGreUpkeep ==
    GameState([turnInfo |-> [phase |-> "Phase_Beginning", step |-> "Step_Upkeep",
                             turnNumber |-> 1, activePlayer |-> 1]])

MsgMatchCreated(m) ==
    [opponentRankingClass |-> "Gold", opponentRankingTier |-> "3",
     opponentMythicPercentile |-> "0.0", opponentMythicLeaderboardPlace |-> "0",
     matchId |-> m]

MsgMatchStarted(m) ==
    [matchGameRoomStateChangedEvent |->
        [gameRoomInfo |-> [gameRoomConfig |-> [eventId |-> "QuickDraft", matchId |-> m]]]]

MsgRank ==
    [limitedStep |-> "2", limitedClass |-> "Silver", limitedLevel |-> "1",
     constructedClass |-> "Bronze", playerId |-> "u1"]

\* The messages of the message-level specification.
AggMsgs ==
    { MsgLogin, MsgLoginNoPayload, MsgGameStop("m1"), MsgGreGameOver("m1"),
      MsgGreHand, MsgGreMulligan, MsgGreUpkeep,
      MsgMatchCreated("m1"), MsgMatchStarted("m1"), MsgRank }

InitAgg ==
    /\ self = FollowerInit
    /\ file = <<>>
    /\ exists = TRUE
    /\ modified = FALSE
    /\ follow = TRUE
    /\ pc = "read"
    /\ pos = 0
    /\ opens = 1
    /\ posted = <<>>
    /\ handed = <<>>
    /\ last = Idle("init")
    /\ rp = NoRetry

\* The writer appends a one-line entry holding a message that is routed to
\* handler h; parse_log reads the line and, at the end of the file, closes it.
Handle(h) ==
    /\ Len(file) < MaxMsgs
    /\ \E m \in AggMsgs, net \in Nets :
       \E line \in {[n |-> Len(file) + 1] @@ Line("untimed", "", <<>>, Dict(m))} :
       \E c \in {handle_complete_log_entry(append_line(Ctx(self, net), line))} :
           /\ Classify(m, <<Text(line)>>) = h
           /\ file' = Append(file, line)
           /\ self' = c.self
           /\ posted' = posted \o Tagged(c.out)
           /\ handed' = handed \o Entries(c, "eof")
           /\ last' = [Did("msg", c) EXCEPT !.handler = h, !.prev = last.handler]
    /\ pos' = pos + 1
    /\ UNCHANGED <<exists, modified, follow, pc, opens, rp>>

Login == Handle("login")
GameEnd == Handle("game_end")
MatchStarted == Handle("match_started")
GreToClient == Handle("gre")
SelfRankInfo == Handle("self_rank_info")
MatchCreated == Handle("match_created")

NextAgg == Login \/ GameEnd \/ MatchStarted \/ GreToClient \/ SelfRankInfo \/ MatchCreated

SpecAgg == InitAgg /\ [][NextAgg]_vars

-----------------------------------------------------------------------------
(* The classifier alone: one entry holding a message of any shape *)

\* The data the handlers read, present in every message of ShapeMsgs; what
\* varies from one message to the other is the keys the chain of lines
\* 295-321 tests.
ShapeParams ==
    [payloadObject |-> MsgLogin.params.payloadObject @@ MsgGameStop("m1").params.payloadObject,
     draftId |-> <<"u1", "QuickDraft", "20200101">>,
     packNumber |-> 1, pickNumber |-> 2, cardId |-> 7001,
     deck |-> [decodes |-> TRUE, value |-> [mainDeck |-> <<>>, sideboard |-> <<>>]],
     eventName |-> "QuickDraft"]

ShapeData ==
    [DraftId |-> <<"u1", "QuickDraft", "20200101">>,
     PackNumber |-> 1, PickNumber |-> 2, DraftPack |-> <<7001, 7002>>,
     InternalEventName |-> "QuickDraft",
     ModuleInstanceData |-> [HasPaidEntry |-> "Gems",
                             WinLossGate |-> [CurrentWins |-> 7, CurrentLosses |-> 2]],
     limitedClass |-> "Silver", opponentRankingTier |-> "3", matchId |-> "m1"]

\* The key with its value when present is TRUE, nothing otherwise.
Optional(present, key, value) == IF present THEN (key :> value) ELSE <<>>

MessageNames == {"none", "Client.Connected", "DuelScene.GameStop"}
Methods ==
    {"none", "Draft.MakePick", "Draft.MakeHumanDraftPick", "Event.DeckSubmit",
     "Event.DeckSubmitV3"}
GreShapes == {"none", "empty", "messages"}

\* Every combination of the keys the classifier tests.
ShapeMsgs ==
    { Optional(TRUE, "params", Optional(name # "none", "messageName", name) @@ ShapeParams)
      @@ Optional(draft, "DraftStatus", "Draft.PickNext")
      @@ Optional(method # "none", "method", method)
      @@ Optional(done, "CurrentEventState", "DoneWithMatches")
      @@ Optional(started, "matchGameRoomStateChangedEvent",
                  MsgMatchStarted("m1").matchGameRoomStateChangedEvent)
      @@ Optional(gre # "none", "greToClientEvent",
                  Optional(gre = "messages", "greToClientMessages",
                           MsgGreHand.greToClientEvent.greToClientMessages))
      @@ Optional(rank, "limitedStep", "2")
      @@ Optional(created, "opponentRankingClass", "Gold")
      @@ ShapeData :
        name \in MessageNames, draft \in BOOLEAN, method \in Methods, done \in BOOLEAN,
        started \in BOOLEAN, gre \in GreShapes, rank \in BOOLEAN, created \in BOOLEAN }

\* The Follower as constructed, and in the middle of a game.
MidGame ==
    [FollowerInit EXCEPT !.cur_user = "u1",
                         !.objects_by_owner = (1 :> (101 :> 7001)),
                         !.cards_in_hand = (1 :> <<7001>>),
                         !.opening_hand_count_by_seat = (1 :> 1),
                         !.drawn_hands = (1 :> << <<7001>> >>),
                         !.starting_team_id = 1]

\* The log holds one entry: a start marker followed by a message of ShapeMsgs,
\* with or without the text ' PlayerInventory.GetPlayerCardsV3 '.
InitClassify ==
    /\ self \in {FollowerInit, MidGame}
    /\ \E m \in ShapeMsgs, coll \in BOOLEAN :
          file = << [n |-> 1] @@ [Line("untimed", "", <<>>, Dict(m)) EXCEPT !.coll = coll] >>
    /\ exists = TRUE
    /\ modified = FALSE
    /\ follow = TRUE
    /\ pc = "read"
    /\ pos = 0
    /\ opens = 1
    /\ posted = <<>>
    /\ handed = <<>>
    /\ last = Idle("init")
    /\ rp = NoRetry

\* parse_log reads the line and, at the end of the file, closes the entry.
HandleBlob ==
    /\ pos = 0
    /\ \E net \in Nets :
       \E c \in {handle_complete_log_entry(append_line(Ctx(self, net), file[1]))} :
           /\ self' = c.self
           /\ posted' = posted \o Tagged(c.out)
           /\ handed' = handed \o Entries(c, "eof")
           /\ last' = Did("blob", c) @@ [before |-> self, net |-> net]
    /\ pos' = 1
    /\ UNCHANGED <<file, exists, modified, follow, pc, opens, rp>>

NextClassify == HandleBlob

SpecClassify == InitClassify /\ [][NextClassify]_vars

-----------------------------------------------------------------------------
(* Game ends alone: one entry holding a game-end message *)

\* An entry of gameInfo.results: per-game or per-match, won by team 1 or 2;
\* or a per-game entry that lacks its other fields.
ResultEntries ==
    { [scope |-> scope, winningTeamId |-> team,
       result |-> "ResultType_WinLoss", reason |-> "ResultReason_Game"] :
        scope \in {"MatchScope_Game", "MatchScope_Match"}, team \in {1, 2} }
    \cup { [scope |-> "MatchScope_Game"] }

ResultLists == UNION { [1..n -> ResultEntries] : n \in 0..MaxResults }

SeatIdLists == { <<>>, <<1>>, <<2>>, <<2, 1>> }

\* A game-state message with stage GameStage_GameOver.
GameOverMsg(system_seat_ids, results, has_match_id) ==
    GreEvent(<<[type |-> "GREMessageType_GameStateMessage",
                systemSeatIds |-> system_seat_ids,
                gameStateMessage |->
                    [gameInfo |-> Optional(has_match_id, "matchID", "m1")
                                  @@ [stage |-> "GameStage_GameOver", results |-> results]]]>>)

\* A DuelScene.GameStop message whose payload lacks the given keys.
GameStopWithout(keys) ==
    [params |-> [messageName |-> "DuelScene.GameStop",
                 payloadObject |->
                    [k \in GameStopKeys \ keys |-> MsgGameStop("m1").params.payloadObject[k]]]]

GameEndMsgs ==
    { GameOverMsg(seats, results, has_match_id) :
        seats \in SeatIdLists, results \in ResultLists, has_match_id \in BOOLEAN }
    \cup { GameStopWithout(keys) : keys \in {{}, {"turnCount"}, {"seatId"}} }

\* The log holds one entry, a game-end message; the Follower is as constructed
\* or in the middle of a game.
InitGameEnd ==
    /\ self \in {FollowerInit, MidGame}
    /\ \E m \in GameEndMsgs :
          file = << [n |-> 1] @@ Line("untimed", "", <<>>, Dict(m)) >>
    /\ exists = TRUE
    /\ modified = FALSE
    /\ follow = TRUE
    /\ pc = "read"
    /\ pos = 0
    /\ opens = 1
    /\ posted = <<>>
    /\ handed = <<>>
    /\ last = Idle("init")
    /\ rp = NoRetry

NextGameEnd == HandleBlob

SpecGameEnd == InitGameEnd /\ [][NextGameEnd]_vars

-----------------------------------------------------------------------------
(* Deck submissions: an Event.DeckSubmitV3 entry followed by a login entry *)

MaxDeckLen == 6
MaxSideLen == 2

\* The arrays [card_id_1, count_1, card_id_2, count_2, ...] of at most max_len
\* elements, the odd-length ones included.
DeckLists(max_len) ==
    UNION { { d \in [1..n -> {0, 1, 2, 7001, 7002}] :
                \A i \in 1..n : IF i % 2 = 1 THEN d[i] >= 7001 ELSE d[i] <= 2 } :
            n \in 0..max_len }

MsgDeckSubmitV3(main_deck, sideboard) ==
    [method |-> "Event.DeckSubmitV3",
     params |-> [eventName |-> "QuickDraft",
                 deck |-> [decodes |-> TRUE,
                           value |-> [mainDeck |-> main_deck, sideboard |-> sideboard]]]]

InitDeck ==
    /\ self \in {FollowerInit, MidGame}
    /\ \E main_deck \in DeckLists(MaxDeckLen), sideboard \in DeckLists(MaxSideLen) :
          file = << [n |-> 1] @@ Line("untimed", "", <<>>,
                                      Dict(MsgDeckSubmitV3(main_deck, sideboard))),
                    [n |-> 2] @@ Line("untimed", "", <<>>, Dict(MsgLogin)) >>
    /\ exists = TRUE
    /\ modified = FALSE
    /\ follow = TRUE
    /\ pc = "read"
    /\ pos = 0
    /\ opens = 1
    /\ posted = <<>>
    /\ handed = <<>>
    /\ last = Idle("init")
    /\ rp = NoRetry

\* parse_log reads the next line and, at the end of what is written, closes
\* the entry.
HandleEntry ==
    /\ pos < Len(file)
    /\ \E net \in Nets :
       \E c \in {handle_complete_log_entry(append_line(Ctx(self, net), file[pos + 1]))} :
           /\ self' = c.self
           /\ posted' = posted \o Tagged(c.out)
           /\ handed' = handed \o Entries(c, "eof")
           /\ last' = Did("entry", c) @@ [before |-> self, net |-> net]
    /\ pos' = pos + 1
    /\ UNCHANGED <<file, exists, modified, follow, pc, opens, rp>>

NextDeck == HandleEntry

SpecDeck == InitDeck /\ [][NextDeck]_vars

-----------------------------------------------------------------------------
(* Opponent rank: match-created and game-end entries of two matches *)

MaxRankMsgs == 3

RankMsgs ==
    UNION { {MsgMatchCreated(m), MsgGameStop(m), MsgGreGameOver(m)} : m \in {"m1", "m2"} }

InitRank ==
    /\ self = FollowerInit
    /\ \E n \in 1..MaxRankMsgs : \E msgs \in [1..n -> RankMsgs] :
          file = [i \in 1..n |-> [n |-> i] @@ Line("untimed", "", <<>>, Dict(msgs[i]))]
    /\ exists = TRUE
    /\ modified = FALSE
    /\ follow = TRUE
    /\ pc = "read"
    /\ pos = 0
    /\ opens = 1
    /\ posted = <<>>
    /\ handed = <<>>
    /\ last = Idle("init")
    /\ rp = NoRetry

NextRank == HandleEntry

SpecRank == InitRank /\ [][NextRank]_vars

-----------------------------------------------------------------------------
(* Envelopes: one entry holding a value with or without 'id', 'payload', 'request' *)

\* A login message of the given player.
LoginOf(player) ==
    [params |-> [messageName |-> "Client.Connected",
                 payloadObject |-> [playerId |-> player, screenName |-> "Ann"]]]

\* Decoded values that are not mappings.
ListValue == [t |-> "list", v |-> <<1, 2>>]
ScalarValue == [t |-> "int", v |-> 7]

\* The key with the value held by maybe (<<>> or <<value>>).
OptionalOf(key, maybe) == IF maybe = <<>> THEN <<>> ELSE (key :> maybe[1])

\* What the 'payload' and 'request' fields hold when present: a 'request' is a
\* string that does not decode, or that decodes to a value.
PayloadValues == { Dict(LoginOf("u2")), ListValue, ScalarValue }
RequestValues ==
    { [decodes |-> FALSE] }
    \cup { [decodes |-> TRUE, value |-> x] : x \in {Dict(LoginOf("u3")), ListValue, ScalarValue} }

\* The decoded values of the entry: a mapping, itself a login message or not,
\* with every combination of the three fields; or an array.
Envelopes ==
    { Dict(Optional(has_id, "id", 5) @@ OptionalOf("payload", payload)
           @@ OptionalOf("request", request) @@ outer) :
        has_id \in BOOLEAN,
        payload \in {<<>>} \cup { <<x>> : x \in PayloadValues },
        request \in {<<>>} \cup { <<x>> : x \in RequestValues },
        outer \in { LoginOf("u1"), [jsonrpc |-> "2.0"] } }
    \cup { ListValue }

InitEnvelope ==
    /\ self \in {FollowerInit, MidGame}
    /\ \E v \in Envelopes : file = << [n |-> 1] @@ Line("untimed", "", <<>>, v) >>
    /\ exists = TRUE
    /\ modified = FALSE
    /\ follow = TRUE
    /\ pc = "read"
    /\ pos = 0
    /\ opens = 1
    /\ posted = <<>>
    /\ handed = <<>>
    /\ last = Idle("init")
    /\ rp = NoRetry

NextEnvelope == HandleBlob

SpecEnvelope == InitEnvelope /\ [][NextEnvelope]_vars

-----------------------------------------------------------------------------
(* One game: a sequence of game-state messages, one per entry *)

\* The cards of the game: instance id and card identifier, by owner.
SeatOneCards == <<Card(1, 101, 7001), Card(1, 102, 7005)>>
SeatTwoCards == <<Card(2, 201, 7002), Card(2, 202, 7003), Card(2, 203, 7004)>>

HandZone(owner, instance_ids) ==
    [type |-> "ZoneType_Hand", ownerSeatId |-> owner, objectInstanceIds |-> instance_ids]

\* Seat 1 is pending a mulligan decision at the given mulligan count (a count
\* of 0 is left out of the message).
PendingMulligan(mulligan_count) ==
    GameState([players |-> << Optional(mulligan_count # 0, "mulliganCount", mulligan_count)
                              @@ [systemSeatNumber |-> 1,
                                  pendingMessageType |-> "ClientMessageType_MulliganResp"] >>,
               turnInfo |-> [activePlayer |-> 1]])

\* An ability of seat 1 on the stack, and card 101 of seat 1 seen again under
\* another card identifier.
AbilityAndCard ==
    << [type |-> "GameObjectType_Ability", ownerSeatId |-> 1, instanceId |-> 301,
        overlayGrpId |-> 9001],
       Card(1, 101, 7009) >>

ObjectsMsgs ==
    { GameState([gameObjects |-> cards]) : cards \in {SeatOneCards, SeatTwoCards, AbilityAndCard} }

ZonesMsgs ==
    { GameState([zones |-> <<HandZone(1, ids)>>]) : ids \in {<<101>>, <<102, 101>>} }
    \cup { GameState([zones |-> <<HandZone(2, <<202, 201>>)>>]) }

MulliganMsgs == { PendingMulligan(k) : k \in 0..2 }

UpkeepMsgs == { MsgGreUpkeep }

\* A game-over message that also carries game objects, a player pending a
\* mulligan decision and the turn info of the first upkeep.
GameOverCarrying ==
    GreEvent(<<[type |-> "GREMessageType_GameStateMessage", systemSeatIds |-> <<1>>,
                gameStateMessage |->
                    [gameInfo |-> GameOverInfo("m1"),
                     gameObjects |-> SeatOneCards,
                     players |-> <<[systemSeatNumber |-> 1,
                                    pendingMessageType |-> "ClientMessageType_MulliganResp"]>>,
                     turnInfo |-> [phase |-> "Phase_Beginning", step |-> "Step_Upkeep",
                                   turnNumber |-> 1, activePlayer |-> 1]]]>>)

GameOverMsgs ==
    { GameOverMsg(<<1>>, <<[scope |-> "MatchScope_Game", winningTeamId |-> 1,
                            result |-> "ResultType_WinLoss",
                            reason |-> "ResultReason_Game"]>>, TRUE),
      GameOverCarrying }

\* The writer appends a one-line entry holding a message of the given kind;
\* parse_log reads the line and, at the end of the file, closes the entry.
\* The log of the game ends with its game-over message.
GreStep(kind, messages) ==
    /\ Len(file) < MaxGre
    /\ last.handler # "game_over"
    /\ \E m \in messages, net \in Nets :
       \E line \in {[n |-> Len(file) + 1] @@ Line("untimed", "", <<>>, Dict(m))} :
       \E c \in {handle_complete_log_entry(append_line(Ctx(self, net), line))} :
           /\ file' = Append(file, line)
           /\ self' = c.self
           /\ posted' = posted \o Tagged(c.out)
           /\ handed' = handed \o Entries(c, "eof")
           /\ last' = [Did("msg", c) EXCEPT !.handler = kind, !.prev = last.handler]
                      @@ [before |-> self]
    /\ pos' = pos + 1
    /\ UNCHANGED <<exists, modified, follow, pc, opens, rp>>

GreObjects == GreStep("objects", ObjectsMsgs)
GreZones == GreStep("zones", ZonesMsgs)
GreMulligan == GreStep("mulligan", MulliganMsgs)
GreUpkeep == GreStep("upkeep", UpkeepMsgs)
GreGameOver == GreStep("game_over", GameOverMsgs)

NextGre == GreObjects \/ GreZones \/ GreMulligan \/ GreUpkeep \/ GreGameOver

SpecGre == InitAgg /\ [][NextGre]_vars

-----------------------------------------------------------------------------
(* Properties *)

\* C1: when the processing of a closed entry raises, the exception stays
\* inside __handle_complete_log_entry and the buffer is left empty: after an
\* end-of-file close parse_log goes on to the modification check with an
\* empty buffer; after a close by a start marker the buffer holds that marker
\* line alone and the loop goes on (or the marker line's own time string is
\* what stopped it).
C1_Contained ==
    last.blob_exc # "none" =>
        /\ last.op = "eof" => (pc = "stat" /\ last.exc = "none" /\ self.buffer = <<>>)
        /\ last.op = "line" =>
            \/ pc = "read" /\ last.exc = "none" /\ self.buffer = <<Text(file[pos])>>
            \/ /\ pc = "crashed" /\ last.exc = "ValueError" /\ self.buffer = <<>>
               /\ file[pos].start = "timed"
               /\ extract_time(file[pos].time) = "ValueError"

\* An entry whose processing raised is followed, in the same pass, by an entry
\* that is processed and whose record is delivered.
C1_Witness ==
    \E i, j \in 1..Len(handed) :
        /\ i < j /\ handed[i].pass = handed[j].pass
        /\ handed[i].exc # "none" /\ handed[j].exc = "none"
        /\ \E k \in 1..Len(posted) :
            /\ posted[k].pass = handed[j].pass
            /\ posted[k].status = 200
            /\ \E l \in 1..Len(handed[j].lines) : handed[j].lines[l] = posted[k].at

\* C2: in follow mode nothing stops the follow loop: whatever the lines of the
\* file and the outcomes of the publish calls, parse_log never leaves its loop
\* through an exception.
C2_NoCrash == follow => pc # "crashed"

\* The number of leading responses of the sequence that are 5xx.
LeadingRetries(responses) ==
    CHOOSE k \in 0..Len(responses) :
        /\ \A i \in 1..k : IS_CODE_FOR_RETRY(responses[i])
        /\ k < Len(responses) => ~IS_CODE_FOR_RETRY(responses[k + 1])

\* C4: answered with status codes only, __retry_post with a budget of N extra
\* attempts makes exactly min(k+1, N+1) POSTs, k being the number of leading
\* 5xx responses: every POST but the last was answered 5xx, the last one was
\* answered with a non-5xx status or was the (N+1)-th, and its response is
\* the one returned.
C4_Attempts ==
    (rp.state = "done" /\ \A i \in DOMAIN rp.responses : rp.responses[i] \in StatusCodes) =>
        /\ rp.result.exc = "none"
        /\ rp.result.attempts = Min(LeadingRetries(rp.responses) + 1, rp.num_retries + 1)
        /\ rp.result.attempts <= rp.num_retries + 1
        /\ rp.result.status = rp.responses[rp.result.attempts]
        /\ \A i \in 1..(rp.result.attempts - 1) : IS_CODE_FOR_RETRY(rp.responses[i])
        /\ \/ ~IS_CODE_FOR_RETRY(rp.result.status)
           \/ rp.result.attempts = rp.num_retries + 1

\* Responses 503, 503, 200 against the default budget: three POSTs, and the
\* 200 is returned.
C4_Witness ==
    /\ rp.state = "done"
    /\ rp.num_retries = RETRIES
    /\ rp.responses = <<503, 503, 200>>
    /\ rp.result = [attempts |-> 3, status |-> 200, exc |-> "none"]

\* C5: whatever each POST is answered with, a transport failure included,
\* __retry_post returns and raises nothing into its caller.
C5_NeverRaises == rp.state = "done" => rp.result.exc = "none"

\* The match whose game end a line of the log signals, by a DuelScene.GameStop
\* message or by a game-state message with stage GameStage_GameOver; "" when
\* the line signals no game end.
GameEndSignalled(line) ==
    IF line.json.t # "dict" THEN ""
    ELSE IF Classify(line.json.v, <<Text(line)>>) = "game_end"
    THEN line.json.v.params.payloadObject.matchId
    ELSE IF Classify(line.json.v, <<Text(line)>>) = "gre"
    THEN LET messages == line.json.v.greToClientEvent.greToClientMessages
             over == {i \in 1..Len(messages) :
                        json_value_matches("GameStage_GameOver",
                                           <<"gameStateMessage", "gameInfo", "stage">>,
                                           messages[i])}
         IN IF over = {} THEN ""
            ELSE messages[CHOOSE i \in over : TRUE].gameStateMessage.gameInfo.matchID
    ELSE ""

\* The game-result records whose triggering text is line n of the file.
GameRecordsAt(n) ==
    {k \in 1..Len(posted) : posted[k].endpoint = ENDPOINT_GAME_RESULT /\ posted[k].at = n}

\* C3: two consecutive entries that signal the end of a game of the same
\* match (a DuelScene.GameStop message and a game-over game-state message, or
\* two game-over game-state messages, with nothing in between) are one game
\* end, and one game-result record at most is posted for the two.
C3_OneRecord ==
    \A i \in 1..(Len(file) - 1) :
        (GameEndSignalled(file[i]) # "" /\ GameEndSignalled(file[i]) = GameEndSignalled(file[i + 1]))
            => Cardinality(GameRecordsAt(i) \cup GameRecordsAt(i + 1)) <= 1

\* C9: after a Client.Connected message is handled, whatever came before, the
\* aggregator holds nothing: no object ownership, no card in any seat's hand,
\* no presentation counter, no drawn hand, no opening hand, and no starting
\* team.
C9_LoginClears ==
    last.handler = "login" =>
        /\ DOMAIN self.objects_by_owner = {}
        /\ \A seat \in DOMAIN self.cards_in_hand : Len(self.cards_in_hand[seat]) = 0
        /\ DOMAIN self.opening_hand_count_by_seat = {}
        /\ DOMAIN self.drawn_hands = {}
        /\ DOMAIN self.opening_hand = {}
        /\ self.starting_team_id = NoneInt

\* C10: a game-end message (DuelScene.GameStop, or a game-state message with
\* stage GameStage_GameOver) handled right after a login posts no game-result
\* record.
C10_NoRecordAfterLogin ==
    (last.prev = "login" /\ last.handler \in {"game_end", "gre"}) =>
        \A i \in 1..Len(last.out) : last.out[i] # ENDPOINT_GAME_RESULT

\* The entries handed to __handle_blob during pass p over the file, in order.
EntriesOfPass(p) == SelectSeq(handed, LAMBDA e : e.pass = p)

\* The file lines of a sequence of entries, joined.
RECURSIVE JoinedLines(_)
JoinedLines(entries) ==
    IF entries = <<>> THEN <<>> ELSE Head(entries).lines \o JoinedLines(Tail(entries))

\* The file lines whose text is in the buffer.
BufferLines == [i \in 1..Len(self.buffer) |-> self.buffer[i].n]

\* What pass p has taken from the file so far: the lines of the entries it
\* handed over, then (for the pass under way) the lines still in the buffer.
Taken(p) == JoinedLines(EntriesOfPass(p)) \o (IF p = opens THEN BufferLines ELSE <<>>)

\* C6 as stated: every entry handed over begins with a start-marker line, so
\* that no entry is cut in two by an end-of-file poll and no text without a
\* marker is handed over.
C6_OnePerMarker ==
    \A i \in 1..Len(handed) : file[handed[i].lines[1]].start # "none"

\* C6, amended: in each pass the lines handed over are the lines read, each
\* once and in file order, cut into entries before every start-marker line
\* and at every end-of-file poll, and nowhere else.  An entry holds at most
\* one marker line, its first; an entry closed by a marker is followed in the
\* file by that marker line; an entry that begins without a marker is the
\* first of its pass or follows an entry closed by an end-of-file poll.
C6_Segments ==
    /\ \A p \in 1..opens :
        /\ Taken(p) = [i \in 1..Len(Taken(p)) |-> i]
        /\ p = opens => Len(Taken(p)) = (IF pc = "crashed" THEN pos - 1 ELSE pos)
    /\ \A l \in 2..Len(self.buffer) : file[self.buffer[l].n].start = "none"
    /\ \A i \in 1..Len(handed) :
        /\ Len(handed[i].lines) > 0
        /\ \A l \in 2..Len(handed[i].lines) : file[handed[i].lines[l]].start = "none"
        /\ handed[i].by = "marker" =>
              file[handed[i].lines[Len(handed[i].lines)] + 1].start # "none"
        /\ file[handed[i].lines[1]].start = "none" =>
              \/ i = 1
              \/ handed[i - 1].pass # handed[i].pass
              \/ handed[i - 1].by = "eof"

\* The writer pauses in the middle of an entry: its marker line is handed
\* over alone by an end-of-file poll, and the continuation line that arrives
\* afterwards is handed over in the same pass as an entry of its own.
C6_Witness ==
    \E i \in 1..(Len(handed) - 1) :
        /\ handed[i].pass = handed[i + 1].pass
        /\ handed[i].by = "eof"
        /\ file[handed[i].lines[1]].start # "none"
        /\ file[handed[i + 1].lines[1]].start = "none"
        /\ handed[i + 1].lines[1] = handed[i].lines[Len(handed[i].lines)] + 1

\* C7: an entry closed while no time string has been seen in any line (the
\* last raw time is still unset) is not handed to __handle_blob.
C7_Discarded ==
    \A i \in 1..Len(handed) : handed[i].raw_time # ""

\* C8: within a pass, records are posted in the order of the file lines that
\* trigger them (for an entry's record the line of its payload, for a
\* user-identity record the account line).
C8_FileOrder ==
    \A i, j \in 1..Len(posted) :
        (i < j /\ posted[i].pass = posted[j].pass) => posted[i].at <= posted[j].at

\* The shape predicates of the classifier, numbered in their fixed order: the
\* numbers of those a message satisfies.
ShapesOf(json_obj, coll) ==
    {i \in 1..13 :
        CASE i = 1 -> /\ Has(json_obj, "params") /\ Has(json_obj.params, "messageName")
                      /\ json_obj.params.messageName = "Client.Connected"
          [] i = 2 -> /\ Has(json_obj, "params") /\ Has(json_obj.params, "messageName")
                      /\ json_obj.params.messageName = "DuelScene.GameStop"
          [] i = 3 -> Has(json_obj, "DraftStatus")
          [] i = 4 -> Has(json_obj, "method") /\ json_obj.method = "Draft.MakePick"
          [] i = 5 -> Has(json_obj, "method") /\ json_obj.method = "Draft.MakeHumanDraftPick"
          [] i = 6 -> Has(json_obj, "method") /\ json_obj.method = "Event.DeckSubmit"
          [] i = 7 -> Has(json_obj, "method") /\ json_obj.method = "Event.DeckSubmitV3"
          [] i = 8 -> /\ Has(json_obj, "CurrentEventState")
                      /\ json_obj.CurrentEventState = "DoneWithMatches"
          [] i = 9 -> Has(json_obj, "matchGameRoomStateChangedEvent")
          [] i = 10 -> /\ Has(json_obj, "greToClientEvent")
                       /\ Has(json_obj.greToClientEvent, "greToClientMessages")
          [] i = 11 -> Has(json_obj, "limitedStep")
          [] i = 12 -> Has(json_obj, "opponentRankingClass")
          [] i = 13 -> coll /\ ~Has(json_obj, "method") }

\* What the handler of the i-th predicate, called alone, makes of a message.
HandlerAt(i, c, json_obj) ==
    CASE i = 1 -> handle_login(c, json_obj)
      [] i = 2 -> handle_game_end(c, json_obj)
      [] i = 3 -> handle_draft_log(c, json_obj)
      [] i = 4 -> handle_draft_pick(c, json_obj)
      [] i = 5 -> handle_human_draft_pick(c, json_obj)
      [] i = 6 -> handle_deck_submission(c, json_obj)
      [] i = 7 -> handle_deck_submission_v3(c, json_obj)
      [] i = 8 -> handle_event_completion(c, json_obj)
      [] i = 9 -> handle_match_started(c, json_obj)
      [] i = 10 -> handle_gre_messages(c, json_obj.greToClientEvent.greToClientMessages)
      [] i = 11 -> handle_self_rank_info(c, json_obj)
      [] i = 12 -> handle_match_created(c, json_obj)
      [] i = 13 -> handle_collection(c, json_obj)

\* What a message must come to under first-match-wins: the work of the
\* handler of the earliest predicate it satisfies, and nothing when it
\* satisfies none.
FirstMatchOnly(c, json_obj, coll) ==
    IF ShapesOf(json_obj, coll) = {} THEN c
    ELSE HandlerAt(CHOOSE i \in ShapesOf(json_obj, coll) :
                        \A j \in ShapesOf(json_obj, coll) : i <= j,
                   c, json_obj)

\* C11: once the entry is processed, the Follower's attributes, the records
\* posted and the error logged are those the handler of the earliest satisfied
\* predicate produces when called alone on the message; a message satisfying
\* no predicate leaves the attributes as they were and posts nothing.
C11_FirstMatch ==
    last.op = "blob" =>
        \E expected \in {FirstMatchOnly([Ctx(last.before, last.net) EXCEPT !.at = 1],
                                        file[1].json.v, file[1].coll)} :
            /\ self = expected.self
            /\ posted = Tagged(expected.out)
            /\ last.blob_exc = expected.exc
            /\ last.exc = "none"
            /\ ShapesOf(file[1].json.v, file[1].coll) = {} =>
                  (self = last.before /\ posted = <<>> /\ last.blob_exc = "none")

\* A message with params.messageName 'Client.Connected' and a DraftStatus key
\* has been processed in the middle of a game: the user record was posted,
\* and no draft-pack record.
C11_Witness ==
    /\ last.op = "blob"
    /\ last.before = MidGame
    /\ ShapesOf(file[1].json.v, file[1].coll) = {1, 3}
    /\ Len(posted) = 1
    /\ posted[1].endpoint = ENDPOINT_USER
    /\ posted[1].status = 200

\* The game-state messages of the entry that report stage GameStage_GameOver.
GameOverMessages ==
    IF ~Has(file[1].json.v, "greToClientEvent") THEN <<>>
    ELSE file[1].json.v.greToClientEvent.greToClientMessages

\* The per-game entries of a results list.
PerGame(results) == {i \in 1..Len(results) : results[i].scope = "MatchScope_Game"}

\* C12: a game-state message with stage game-over posts at most one
\* game-result record; none when its results hold no per-game entry; and the
\* record it posts is built from the last per-game entry: the local seat is
\* the first system seat id, and won says whether that entry's winningTeamId
\* is the local seat id.
C12_GameOverRecord ==
    (last.op = "blob" /\ Len(GameOverMessages) = 1) =>
        \E message \in {GameOverMessages[1]} :
        \E results \in {message.gameStateMessage.gameInfo.results} :
            /\ Len(posted) <= 1
            /\ PerGame(results) = {} => posted = <<>>
            /\ posted # <<>> =>
                \E i \in PerGame(results) :
                    /\ \A j \in PerGame(results) : j <= i
                    /\ posted[1].endpoint = ENDPOINT_GAME_RESULT
                    /\ posted[1].blob.won = (message.systemSeatIds[1] = results[i].winningTeamId)
                    /\ posted[1].blob.win_type = results[i].result
                    /\ posted[1].blob.game_end_reason = results[i].reason
                    /\ posted[1].blob.match_id = message.gameStateMessage.gameInfo.matchID
            /\ ( /\ PerGame(results) # {}
                 /\ message.systemSeatIds # <<>>
                 /\ Has(message.gameStateMessage.gameInfo, "matchID")
                 /\ \A i \in PerGame(results) :
                        (\A j \in PerGame(results) : j <= i) => Has(results[i], "winningTeamId") )
               => Len(posted) = 1

\* Results [per-game won by team 1, per-match won by team 2] with system seat
\* ids [1]: the record says won = true.
C12_Witness ==
    /\ last.op = "blob"
    /\ Len(GameOverMessages) = 1
    /\ GameOverMessages[1].systemSeatIds = <<1>>
    /\ GameOverMessages[1].gameStateMessage.gameInfo.results =
          << [scope |-> "MatchScope_Game", winningTeamId |-> 1,
              result |-> "ResultType_WinLoss", reason |-> "ResultReason_Game"],
             [scope |-> "MatchScope_Match", winningTeamId |-> 2,
              result |-> "ResultType_WinLoss", reason |-> "ResultReason_Game"] >>
    /\ Len(posted) = 1
    /\ posted[1].blob.won = TRUE
    /\ posted[1].status = 200

\* The game-state message an entry of the game-level log holds.
GameStateOf(line) == line.json.v.greToClientEvent.greToClientMessages[1].gameStateMessage

\* The mulligan count at which an entry shows seat 1 pending a decision; -1
\* when it shows no pending decision.
MulliganCountOf(line) ==
    IF ~Has(GameStateOf(line), "players") THEN -1
    ELSE IF ~IsDeciding(GameStateOf(line).players[1]) THEN -1
    ELSE Get(GameStateOf(line).players[1], "mulliganCount", 0)

IsGameOver(line) ==
    /\ Has(GameStateOf(line), "gameInfo")
    /\ GameStateOf(line).gameInfo.stage = "GameStage_GameOver"

\* The mulligan counts shown by the first n entries, in order.
RECURSIVE CountsUpTo(_)
CountsUpTo(n) ==
    IF n = 0 THEN <<>>
    ELSE CountsUpTo(n - 1)
         \o (IF MulliganCountOf(file[n]) >= 0 THEN <<MulliganCountOf(file[n])>> ELSE <<>>)

\* Counts that start at 0 and, from one message to the next, repeat or go up
\* by one.
Staircase(counts) ==
    /\ counts # <<>>
    /\ counts[1] = 0
    /\ \A i \in 1..(Len(counts) - 1) : counts[i + 1] \in {counts[i], counts[i] + 1}

\* A seat's captured-hand history and current hand (a seat never seen has none).
HistoryOf(s) == Get(s.drawn_hands, 1, <<>>)
HandNow(s) == Get(s.cards_in_hand, 1, <<>>)

\* C13: from a reset aggregator, while seat 1 is shown pending a mulligan
\* decision at counts 0, 1, 2, ... (each count possibly repeated), its
\* captured-hand history has one hand per count reached: length 3 after
\* counts 0, 1, 2.  The game-over message that follows reports the history
\* without its last hand: a mulligan list of length 2.  A message is a new
\* decision point, and snapshots the current hand, exactly when its count
\* equals the length of the history; a repeated count adds nothing.
C13_Mulligans ==
    /\ (Len(file) > 0 /\ \A i \in 1..Len(file) : ~IsGameOver(file[i])
                      /\ Staircase(CountsUpTo(Len(file))))
          => Len(HistoryOf(self)) = CountsUpTo(Len(file))[Len(CountsUpTo(Len(file)))] + 1
    /\ (Len(file) > 1 /\ \A i \in 1..(Len(file) - 1) : ~IsGameOver(file[i])
                      /\ IsGameOver(file[Len(file)])
                      /\ Staircase(CountsUpTo(Len(file) - 1)))
          => /\ Len(posted) = 1
             /\ posted[1].endpoint = ENDPOINT_GAME_RESULT
             /\ Len(posted[1].blob.mulligans)
                    = CountsUpTo(Len(file) - 1)[Len(CountsUpTo(Len(file) - 1))]
             /\ posted[1].blob.mulligans = SubSeq(HistoryOf(last.before), 1,
                                                  Len(HistoryOf(last.before)) - 1)
    /\ last.handler = "mulligan" =>
          HistoryOf(self) =
              IF MulliganCountOf(file[Len(file)]) = Len(HistoryOf(last.before))
              THEN Append(HistoryOf(last.before), HandNow(last.before))
              ELSE HistoryOf(last.before)

\* Seat 1 was pending at counts 0, 1 and 2 and the game ended: the record
\* posted lists two mulliganed hands.
C13_Witness ==
    /\ Len(file) = 4
    /\ CountsUpTo(3) = <<0, 1, 2>>
    /\ IsGameOver(file[4])
    /\ Len(HistoryOf(last.before)) = 3
    /\ Len(posted) = 1
    /\ Len(posted[1].blob.mulligans) = 2
    /\ posted[1].status = 200

\* The hand zone an entry of the game-level log reports.
HandZoneOf(line) == GameStateOf(line).zones[1]

\* The instance ids recorded for a seat (none for a seat never seen).
RecordedFor(s, owner) == Get(s.objects_by_owner, owner, EmptyDict)

\* C14: when a hand-zone update lists only instance ids already recorded for
\* the owning seat, the seat's hand becomes the card identifiers of the listed
\* instances, in the listed order and of the listed length: with three objects
\* recorded for seat 2 and two of them listed, the hand has length 2.
C14_HandFromZone ==
    (last.handler = "zones"
     /\ \A i \in 1..Len(HandZoneOf(file[Len(file)]).objectInstanceIds) :
           HandZoneOf(file[Len(file)]).objectInstanceIds[i]
               \in DOMAIN RecordedFor(last.before, HandZoneOf(file[Len(file)]).ownerSeatId))
    => /\ last.exc = "none"
       /\ Has(self.cards_in_hand, HandZoneOf(file[Len(file)]).ownerSeatId)
       /\ self.cards_in_hand[HandZoneOf(file[Len(file)]).ownerSeatId]
             = [i \in 1..Len(HandZoneOf(file[Len(file)]).objectInstanceIds) |->
                   RecordedFor(last.before, HandZoneOf(file[Len(file)]).ownerSeatId)
                       [HandZoneOf(file[Len(file)]).objectInstanceIds[i]]]
       /\ \A o \in DOMAIN self.cards_in_hand \ {HandZoneOf(file[Len(file)]).ownerSeatId} :
             /\ Has(last.before.cards_in_hand, o)
             /\ self.cards_in_hand[o] = last.before.cards_in_hand[o]

\* Three objects are recorded for seat 2 and the zone lists two of them.
C14_Witness ==
    /\ last.handler = "zones"
    /\ Cardinality(DOMAIN RecordedFor(last.before, 2)) = 3
    /\ HandZoneOf(file[Len(file)]) = HandZone(2, <<202, 201>>)
    /\ self.cards_in_hand[2] = <<7003, 7002>>

\* The decklists of the deck-submission entry.
MainDeck == file[1].json.v.params.deck.value.mainDeck
Sideboard == file[1].json.v.params.deck.value.sideboard

\* The sum of the counts of the first n pairs of a decklist; with an
\* identifier, of those pairs only that name it.
RECURSIVE CountSum(_, _, _)
CountSum(d, n, ids) ==
    IF n = 0 THEN 0
    ELSE CountSum(d, n - 1, ids) + (IF d[2 * n - 1] \in ids THEN d[2 * n] ELSE 0)

AllIds == {7001, 7002}

\* r lists, for each pair of d in order, the pair's identifier as many times as
\* the pair's count.
Expands(d, r) ==
    /\ Len(r) = CountSum(d, Len(d) \div 2, AllIds)
    /\ \A x \in AllIds :
          Cardinality({k \in 1..Len(r) : r[k] = x}) = CountSum(d, Len(d) \div 2, {x})
    /\ \A k \in 1..Len(r) :
          \E i \in 1..(Len(d) \div 2) :
             /\ CountSum(d, i - 1, AllIds) < k
             /\ k <= CountSum(d, i, AllIds)
             /\ r[k] = d[2 * i - 1]

\* C15: for an array of even length the decklist parser yields each card
\* identifier as many times as the sum of the counts paired with it, the
\* identifiers following the order of the pairs; the deck record of a
\* submission carries these lists.
C15_DecklistExpanded ==
    /\ Len(MainDeck) % 2 = 0 => Expands(MainDeck, get_card_ids_from_decklist_v3(MainDeck))
    /\ Len(Sideboard) % 2 = 0 => Expands(Sideboard, get_card_ids_from_decklist_v3(Sideboard))
    /\ (pos >= 1 /\ Len(MainDeck) % 2 = 0 /\ Len(Sideboard) % 2 = 0)
          => /\ Len(posted) >= 1
             /\ posted[1].endpoint = ENDPOINT_DECK_SUBMISSION
             /\ Expands(MainDeck, posted[1].blob.maindeck_card_ids)
             /\ Expands(Sideboard, posted[1].blob.sideboard_card_ids)

\* A deck naming one card in two pairs was submitted and its record delivered.
C15_Witness ==
    /\ pos = 1
    /\ MainDeck = <<7001, 1, 7002, 2, 7001, 2>>
    /\ Len(posted) = 1
    /\ posted[1].status = 200
    /\ posted[1].blob.maindeck_card_ids = <<7001, 7002, 7002, 7001, 7001>>

\* C16: an Event.DeckSubmitV3 entry whose mainDeck or sideboard array has odd
\* length produces no deck record; the error stays inside the entry's
\* handling, and the login entry that follows is processed: the player becomes
\* the current user and the user record is posted (and delivered when the
\* server answers).
C16_OddDeck ==
    (Len(MainDeck) % 2 = 1 \/ Len(Sideboard) % 2 = 1) =>
        /\ \A i \in 1..Len(posted) : posted[i].endpoint # ENDPOINT_DECK_SUBMISSION
        /\ pos >= 1 => last.exc = "none"
        /\ pos = 1 => /\ last.blob_exc = "AssertionError"
                      /\ posted = <<>>
                      /\ self = clear_game_data(last.before)
        /\ pos = 2 => /\ Len(posted) = 1
                      /\ posted[1].endpoint = ENDPOINT_USER
                      /\ posted[1].blob.player_id = "u1"
                      /\ self.cur_user = "u1"
                      /\ Len(handed) = 2
                      /\ last.net[1] = NetOk => /\ last.blob_exc = "none"
                                                /\ posted[1].status = 200

\* A submission with a sideboard of odd length was followed by a login, whose
\* record was delivered.
C16_Witness ==
    /\ pos = 2
    /\ Len(MainDeck) = 4
    /\ Len(Sideboard) = 1
    /\ Len(posted) = 1
    /\ posted[1].endpoint = ENDPOINT_USER
    /\ posted[1].status = 200

\* What the aggregator holds for a seat, read as the code reads it (a seat
\* never seen reads as empty), and the on-the-play marker.
GameDataOf(s) ==
    [seat \in {1, 2} |->
        [objects |-> Get(s.objects_by_owner, seat, EmptyDict),
         presented |-> Get(s.opening_hand_count_by_seat, seat, 0),
         drawn |-> Get(s.drawn_hands, seat, <<>>),
         opening |-> Get(s.opening_hand, seat, <<>>),
         starting |-> s.starting_team_id]]

\* Building the record failed on a missing field or an empty seat id list.
BuildFailed == last.blob_exc \in {"KeyError", "IndexError"}

\* C19: on both game-end paths the game data is cleared only once the record
\* is built.  When building fails (a missing field, an empty system seat id
\* list) nothing is posted and ownership, presentation counters, mulligan
\* history, opening hands and the on-the-play marker read as they did before
\* the message; when a record was built and handed to the publisher they are
\* cleared, whether the record is delivered or not.
C19_ClearAfterBuild ==
    last.op = "blob" =>
        /\ BuildFailed => /\ posted = <<>>
                          /\ GameDataOf(self) = GameDataOf(last.before)
        /\ posted # <<>> => /\ ~BuildFailed
                            /\ Len(posted) = 1
                            /\ posted[1].endpoint = ENDPOINT_GAME_RESULT
                            /\ GameDataOf(self) = GameDataOf(FollowerInit)
        /\ (~BuildFailed /\ posted = <<>>) => /\ last.blob_exc = "none"
                                              /\ GameDataOf(self) = GameDataOf(last.before)

\* In the middle of a game a game-over message arrives whose per-game result
\* lacks the winning team: no record, and the game data is still there.
C19_Witness ==
    /\ last.op = "blob"
    /\ last.before = MidGame
    /\ file[1].json.v = GameOverMsg(<<1>>, <<[scope |-> "MatchScope_Game"]>>, TRUE)
    /\ last.blob_exc = "KeyError"
    /\ posted = <<>>
    /\ GameDataOf(self)[1].drawn = << <<7001>> >>
    /\ GameDataOf(self)[1].starting = 1

\* In the middle of a game a DuelScene.GameStop message arrives while the
\* server is unreachable: the record is not delivered, the game data is gone.
C19_Undelivered ==
    /\ last.op = "blob"
    /\ last.before = MidGame
    /\ last.blob_exc = "ConnectionError"
    /\ Len(posted) = 1
    /\ posted[1].status # 200
    /\ GameDataOf(self) = GameDataOf(FollowerInit)

\* C20: in follow mode, the writer only appending, no line of the file is
\* handed to the entry handler twice, whatever the interleaving of the
\* writer's appends with the reader's readline and modification check.
C20_AtMostOnce ==
    follow =>
        \A i, j \in 1..Len(handed) :
            i < j => \A a \in 1..Len(handed[i].lines), b \in 1..Len(handed[j].lines) :
                        handed[i].lines[a] # handed[j].lines[b]

\* Line n of the file has been handed to the entry handler, in some entry.
Processed(n) ==
    \E i \in 1..Len(handed) : \E a \in 1..Len(handed[i].lines) : handed[i].lines[a] = n

\* The lines handed over so far, in the order of their handing over.
RECURSIVE LinesOf(_)
LinesOf(entries) ==
    IF entries = <<>> THEN <<>> ELSE Head(entries).lines \o LinesOf(Tail(entries))

\* parse_log has stopped: it returned, or an exception left it.
Stopped == pc \in {"done", "crashed"}

\* One full pass: the lines read are the lines of the file up to its end, each
\* handed over once, in order, and no entry is left open.
FullPass ==
    /\ opens = 1 => /\ LinesOf(handed) = [i \in 1..pos |-> i]
                    /\ self.buffer = <<>>
    /\ opens = 0 => handed = <<>>

\* The bound on the number of passes has been reached with a pass yet to make.
OutOfPasses == pc = "open" /\ opens = MaxOpens

\* C17: in non-follow mode parse_log stops, whatever the file (absent, or
\* written to during the pass); it has then opened the file at most once,
\* handed every line it found over once, and closed the last entry.
C17_SinglePass ==
    /\ [](~follow => opens <= 1)
    /\ ~follow => <>Stopped
    /\ [](~follow /\ Stopped => FullPass)

\* As C17, for the runs that no exception ends.
C17_SinglePassReturned ==
    /\ [](~follow => opens <= 1)
    /\ ~follow => <>Stopped
    /\ [](~follow /\ pc = "done" => FullPass)

\* C18: in follow mode, once a line is in the file and the file stays, the
\* line is eventually handed to the entry handler, with or without a later
\* start marker.
C18_EventuallyProcessed ==
    \A n \in 1..MaxLines :
        [](follow /\ Len(file) >= n => <>(Processed(n) \/ ~exists \/ OutOfPasses))

\* As C18, for the runs that no exception ends.
C18_ProcessedUnlessCrashed ==
    \A n \in 1..MaxLines :
        [](follow /\ Len(file) >= n
              => <>(Processed(n) \/ ~exists \/ OutOfPasses \/ pc = "crashed"))

\* In follow mode parse_log never returns, and a file found absent, at the
\* open or at the modification check, sends it back to opening the file.
C18_MissingNotFatal ==
    /\ [](follow => pc # "done")
    /\ [][follow /\ ~exists /\ pc \in {"open", "stat"} => pc' \in {pc, "open"}]_vars

\* The listed instance ids of a hand zone that are recorded for its seat.
Resolvable(s, zone) ==
    { i \in 1..Len(zone.objectInstanceIds) :
         zone.objectInstanceIds[i] \in DOMAIN RecordedFor(s, zone.ownerSeatId) }

\* C21: after a hand-zone update the seat's hand holds resolved card
\* identifiers only, no placeholder for an instance id that is not recorded for
\* the seat, and is as long as the number of listed ids that are recorded.
C21_UnresolvedSkipped ==
    last.handler = "zones" =>
        /\ \A i \in 1..Len(self.cards_in_hand[HandZoneOf(file[Len(file)]).ownerSeatId]) :
              self.cards_in_hand[HandZoneOf(file[Len(file)]).ownerSeatId][i] # NoneInt
        /\ Len(self.cards_in_hand[HandZoneOf(file[Len(file)]).ownerSeatId])
              = Cardinality(Resolvable(last.before, HandZoneOf(file[Len(file)])))

\* The entry shows turn info (phase beginning, step upkeep, turn 1).
IsUpkeep(line) ==
    /\ Has(GameStateOf(line), "turnInfo")
    /\ Get(GameStateOf(line).turnInfo, "phase", "None") = "Phase_Beginning"
    /\ Get(GameStateOf(line).turnInfo, "step", "None") = "Step_Upkeep"
    /\ Get(GameStateOf(line).turnInfo, "turnNumber", 0) = 1

\* Every seat's opening hand, as the game record reads it.
OpeningHands(s) == [seat \in {1, 2} |-> Get(s.opening_hand, seat, <<>>)]

\* An earlier entry, with no game end since, showed the turn-1 upkeep.
UpkeepSeen ==
    \E i \in 1..(Len(file) - 1) :
        /\ IsUpkeep(file[i])
        /\ \A j \in i..(Len(file) - 1) : ~IsGameOver(file[j])

\* C22 as stated: once a message has shown the turn-1 upkeep, no later message
\* before the next reset changes any seat's opening hand.
C22_FirstUpkeepOnly ==
    (last.op = "msg" /\ last.handler # "game_over" /\ UpkeepSeen)
        => OpeningHands(self) = OpeningHands(last.before)

\* C22, amended: the opening hands are captured by the first turn-1 upkeep
\* message at which a hand is known for some seat; that message snapshots
\* every seat's current hand.  Before it no message sets an opening hand, and
\* after it, until the game ends, no message changes one.
C22_CapturedOnce ==
    (last.op = "msg" /\ last.handler # "game_over") =>
        /\ DOMAIN last.before.opening_hand # {} => self.opening_hand = last.before.opening_hand
        /\ (DOMAIN last.before.opening_hand = {} /\ last.handler = "upkeep")
              => /\ self.opening_hand = last.before.cards_in_hand
                 /\ self.cards_in_hand = last.before.cards_in_hand
        /\ (DOMAIN last.before.opening_hand = {} /\ last.handler # "upkeep")
              => self.opening_hand = EmptyDict

\* The opening hand of seat 1 was captured and a later hand-zone update
\* changed its hand, not its opening hand.
C22_Witness ==
    /\ last.handler = "zones"
    /\ UpkeepSeen
    /\ OpeningHands(self)[1] = <<7001>>
    /\ Get(self.cards_in_hand, 1, <<>>) = <<7005, 7001>>

IsMatchCreated(line) == Has(line.json.v, "opponentRankingClass")

\* The match id stored by the most recent match-created entry among the first
\* n entries; "None" when there is none.
RECURSIVE StoredMatchId(_)
StoredMatchId(n) ==
    IF n = 0 THEN "None"
    ELSE IF IsMatchCreated(file[n]) THEN file[n].json.v.matchId
    ELSE StoredMatchId(n - 1)

\* The entry just handled produced a game-result record.
GameRecordBuilt == last.op = "entry" /\ last.out = <<ENDPOINT_GAME_RESULT>>

\* C23: a game-result record whose match id differs from the one stored by the
\* most recent match-created message carries no opponent rank, and the cached
\* opponent rank is dropped; a record for the match just created carries the
\* rank of that message.
C23_OpponentRank ==
    GameRecordBuilt =>
        /\ posted[Len(posted)].blob.match_id # StoredMatchId(pos - 1)
              => /\ posted[Len(posted)].blob.opponent_rank = <<>>
                 /\ self.cur_opponent_level = <<>>
        /\ (pos > 1 /\ IsMatchCreated(file[pos - 1])
            /\ posted[Len(posted)].blob.match_id = StoredMatchId(pos - 1))
              => /\ posted[Len(posted)].blob.opponent_rank = last.before.cur_opponent_level
                 /\ posted[Len(posted)].blob.opponent_rank # <<>>

\* Match m1 was created, then match m2, and a game of m1 ended: its record
\* has no opponent rank.
C23_Witness ==
    /\ GameRecordBuilt
    /\ pos = 3
    /\ file[1].json.v = MsgMatchCreated("m1")
    /\ file[2].json.v = MsgMatchCreated("m2")
    /\ posted[Len(posted)].blob.match_id = "m1"
    /\ last.before.cur_opponent_level # <<>>
    /\ posted[Len(posted)].blob.opponent_rank = <<>>

\* C24: once a game-state message that produced a game-result record has been
\* handled, the aggregator holds nothing of the game: ownership, presentation
\* counters, mulligan history and opening hands are empty and the on-the-play
\* marker is unset, whatever else the message carries.
C24_NothingLeft ==
    (last.handler = "game_over" /\ last.out = <<ENDPOINT_GAME_RESULT>>)
        => GameDataOf(self) = GameDataOf(FollowerInit)

\* C25: in a game-result record produced from a game-over message the
\* mulligan count of the local seat is the number of hands in the record's
\* mulligans list.
C25_CountMatchesList ==
    (last.handler = "game_over" /\ last.out = <<ENDPOINT_GAME_RESULT>>)
        => posted[Len(posted)].blob.mulligan_count = Len(posted[Len(posted)].blob.mulligans)

\* The player a value logs in, "none" when the value is not a login message
\* (an array, a scalar, a mapping without 'params').
UserIn(x) ==
    IF x.t = "dict" /\ Has(x.v, "params") THEN x.v.params.payloadObject.playerId ELSE "none"

\* The player the entry's value logs in once unwrapped as C26 states.
ExpectedUser(x) ==
    IF x.t # "dict" THEN "none"
    ELSE IF "id" \notin DOMAIN x.v THEN UserIn(x)
    ELSE IF "payload" \in DOMAIN x.v THEN UserIn(x.v.payload)
    ELSE IF "request" \in DOMAIN x.v /\ x.v.request.decodes THEN UserIn(x.v.request.value)
    ELSE UserIn(x)

\* C26: the message handled is the decoded value itself when it has no 'id';
\* its 'payload' when it has 'id' and 'payload', whatever its 'request'; the
\* value decoded from its 'request' when it has 'id' and 'request' only, and
\* the outer value when that decoding fails.  A result that is not a mapping
\* is dropped: no record, no change of state.
C26_Unwrapped ==
    last.op = "blob" =>
        IF ExpectedUser(file[1].json) = "none"
        THEN /\ posted = <<>>
             /\ self = last.before
             /\ last.blob_exc = "none"
        ELSE /\ Len(posted) = 1
             /\ posted[1].endpoint = ENDPOINT_USER
             /\ posted[1].blob.player_id = ExpectedUser(file[1].json)
             /\ self.cur_user = ExpectedUser(file[1].json)

\* A value with 'id', a 'payload' login and a 'request' that decodes to another
\* login: the payload's player is logged in.
C26_Witness ==
    /\ last.op = "blob"
    /\ file[1].json.t = "dict"
    /\ Has(file[1].json.v, "id")
    /\ Has(file[1].json.v, "payload")
    /\ Has(file[1].json.v, "request")
    /\ file[1].json.v.request = [decodes |-> TRUE, value |-> Dict(LoginOf("u3"))]
    /\ Len(posted) = 1
    /\ posted[1].blob.player_id = "u2"
    /\ posted[1].status = 200

\* A value with 'id' and a 'request' that does not decode, itself a login
\* message: the outer value is handled.
C26_Fallback ==
    /\ last.op = "blob"
    /\ file[1].json.t = "dict"
    /\ Has(file[1].json.v, "id")
    /\ ~Has(file[1].json.v, "payload")
    /\ Has(file[1].json.v, "request")
    /\ file[1].json.v.request = [decodes |-> FALSE]
    /\ Len(posted) = 1
    /\ posted[1].blob.player_id = "u1"

\* The (owner seat, instance id) pairs recorded.
PairsOf(s) ==
    { p \in {1, 2} \X {101, 102, 201, 202, 203, 301} :
         /\ p[1] \in DOMAIN s.objects_by_owner
         /\ p[2] \in DOMAIN s.objects_by_owner[p[1]] }

\* The game objects of the last entry.
ObjectsOf(line) == Get(GameStateOf(line), "gameObjects", <<>>)

\* C27: a message that is neither a reset trigger nor a game end removes no
\* recorded (owner seat, instance id) pair; a pair it adds, and a card
\* identifier it changes, come from a card-kind object of the message, so that
\* objects of another kind are never recorded.
C27_OwnershipGrows ==
    (last.op = "msg" /\ last.handler # "game_over") =>
        /\ PairsOf(last.before) \subseteq PairsOf(self)
        /\ \A p \in PairsOf(self) :
              \/ /\ p \in PairsOf(last.before)
                 /\ self.objects_by_owner[p[1]][p[2]] = last.before.objects_by_owner[p[1]][p[2]]
              \/ \E k \in 1..Len(ObjectsOf(file[Len(file)])) :
                    /\ ObjectsOf(file[Len(file)])[k].type = "GameObjectType_Card"
                    /\ ObjectsOf(file[Len(file)])[k].ownerSeatId = p[1]
                    /\ ObjectsOf(file[Len(file)])[k].instanceId = p[2]
                    /\ ObjectsOf(file[Len(file)])[k].overlayGrpId
                          = self.objects_by_owner[p[1]][p[2]]
        /\ \A k \in 1..Len(ObjectsOf(file[Len(file)])) :
              ObjectsOf(file[Len(file)])[k].type = "GameObjectType_Card"
                  => <<ObjectsOf(file[Len(file)])[k].ownerSeatId,
                       ObjectsOf(file[Len(file)])[k].instanceId>> \in PairsOf(self)

\* Cards 101 and 102 of seat 1 are recorded; a message brings an ability and
\* card 101 under another identifier: the ability is not recorded, card 102
\* stays and card 101 has the new identifier.
C27_Witness ==
    /\ last.handler = "objects"
    /\ ObjectsOf(file[Len(file)]) = AbilityAndCard
    /\ PairsOf(last.before) = {<<1, 101>>, <<1, 102>>}
    /\ PairsOf(self) = {<<1, 101>>, <<1, 102>>}
    /\ last.before.objects_by_owner[1][101] = 7001
    /\ self.objects_by_owner[1][101] = 7009

====
